---- MODULE Spec2Model ----
(***************************************************************************)
(* EventStoreML (src/eventstoreml.py): the ESML validator.                 *)
(*                                                                         *)
(* A run of ESMLValidator.validate_text is modelled at the level of the    *)
(* decoded JSON values of the text: each step of the loop hands one value  *)
(* to _validate_event, which either registers a schema (a declaration      *)
(* event) or matches the payload against the registered schema.            *)
(*                                                                         *)
(* JSON values are tagged records, Python's dict is a sequence of          *)
(* <<key, value>> pairs in insertion order, and an exception that is not   *)
(* an ESMLValidationError (TypeError, AttributeError, ValueError,          *)
(* RecursionError) is an outcome of its own.                               *)
(***************************************************************************)
EXTENDS Integers, Sequences, FiniteSets, TLC

VARIABLES
    collect_summary,        \* ESMLValidator.collect_summary
    registry,               \* ESMLValidator.registry: tag -> schema
    declarator_candidates,  \* ESMLValidator.declarator_candidates
    event_count,            \* ESMLValidator.event_count
    declarer_event_count,   \* ESMLValidator.declarer_event_count
    normal_event_count,     \* ESMLValidator.normal_event_count
    declared_types,         \* ESMLValidator.declared_types (a list)
    event_type_counts,      \* ESMLValidator.event_type_counts: tag -> count
    event_index,            \* validate_text: the local event_index
    pc,                     \* validate_text: "loop", "done", "error", "crashed"
    error,                  \* the exception that ended the run, or NoError
    stream,                 \* the values decoded from the text so far
    outcomes,               \* per value of stream: what _validate_event did
    text,                   \* validate_text: the text
    idx,                    \* validate_text: the local idx, an offset from 0
    m_pc,                   \* schema matcher on its own: "start" or "done"
    m_value,                \* schema matcher on its own: the value
    m_schema,               \* schema matcher on its own: the schema
    m_tag,                  \* schema matcher on its own: the tag of m_schema
    m_direct,               \* result of matching m_value against m_schema
    m_viaref,               \* result of matching m_value against a $ref to m_tag
    t_pc,                   \* parse_type_tag on its own: "start" or "done"
    t_tag,                  \* parse_type_tag on its own: the argument
    t_result,               \* parse_type_tag on its own: the tag or "ValueError"
    class_schema,           \* the dict ESMLValidator.BUILTIN_TYPEDECLARED_SCHEMA
    inst,                   \* two validators side by side: number -> validator
    earlier,                \* the streams of the earlier validate_text calls
    main_pc,                \* main: "off", "start", "validating", "exited"
    argv,                   \* main: sys.argv[1:]
    exit_status             \* main: the exit status of the process, or NoStatus

validator_vars == <<collect_summary, registry, declarator_candidates, event_count,
                    declarer_event_count, normal_event_count, declared_types,
                    event_type_counts, event_index, pc, error, stream, outcomes>>

text_vars == <<text, idx>>

matcher_vars == <<m_pc, m_value, m_schema, m_tag, m_direct, m_viaref>>

tag_vars == <<t_pc, t_tag, t_result>>

two_vars == <<class_schema, inst>>

again_vars == <<earlier>>

main_vars == <<main_pc, argv, exit_status>>

vars == <<validator_vars, text_vars, matcher_vars, tag_vars, two_vars, again_vars,
          main_vars>>

\* what a run over decoded values leaves alone
other_vars == <<text_vars, matcher_vars, tag_vars, two_vars, again_vars, main_vars>>

----------------------------------------------------------------------------
(* JSON values as json.JSONDecoder produces them.                          *)

JNull == [k |-> "null"]
JBool(b) == [k |-> "bool", v |-> b]
JInt(n) == [k |-> "int", v |-> n]
\* a float, counted in halves: JFloat(3) is 1.5 and JFloat(2) is 1.0
JFloat(h) == [k |-> "float", v |-> h]
JStr(s) == [k |-> "str", v |-> s]
JArr(items) == [k |-> "arr", v |-> items]
\* a dict: <<key, value>> pairs in insertion order, keys distinct
JObj(pairs) == [k |-> "obj", v |-> pairs]

IsDict(x) == x.k = "obj"
IsList(x) == x.k = "arr"
IsStr(x) == x.k = "str"
IsBool(x) == x.k = "bool"
IsNone(x) == x.k = "null"

Keys(o) == {o.v[i][1] : i \in 1..Len(o.v)}
Has(o, key) == key \in Keys(o)
Lookup(o, key) == o.v[CHOOSE i \in 1..Len(o.v) : o.v[i][1] = key][2]
\* dict.get(key, default) and dict.get(key)
GetOr(o, key, default) == IF Has(o, key) THEN Lookup(o, key) ELSE default
Get(o, key) == GetOr(o, key, JNull)

\* Python's truth value, as `x or default` tests it
Truthy(x) ==
    CASE x.k = "null" -> FALSE
      [] x.k = "bool" -> x.v
      [] x.k = "int" -> x.v # 0
      [] x.k = "float" -> x.v # 0
      [] x.k = "str" -> x.v # ""
      [] x.k = "arr" -> Len(x.v) > 0
      [] x.k = "obj" -> Len(x.v) > 0

IsNumeric(x) == x.k \in {"bool", "int", "float"}
Halves(x) ==
    CASE x.k = "bool" -> (IF x.v THEN 2 ELSE 0)
      [] x.k = "int" -> 2 * x.v
      [] x.k = "float" -> x.v

\* Python's ==: True == 1 == 1.0, lists by position, dicts regardless of order
RECURSIVE PyEq(_, _)
PyEq(a, b) ==
    IF IsNumeric(a) /\ IsNumeric(b) THEN Halves(a) = Halves(b)
    ELSE IF a.k # b.k THEN FALSE
    ELSE CASE a.k = "null" -> TRUE
           [] a.k = "str" -> a.v = b.v
           [] a.k = "arr" -> /\ Len(a.v) = Len(b.v)
                             /\ \A i \in 1..Len(a.v) : PyEq(a.v[i], b.v[i])
           [] a.k = "obj" -> /\ Keys(a) = Keys(b)
                             /\ \A key \in Keys(a) : PyEq(Lookup(a, key), Lookup(b, key))

\* `x in lst` for a list
InList(x, lst) == \E i \in 1..Len(lst.v) : PyEq(lst.v[i], x)

----------------------------------------------------------------------------
(* Strings.                                                                *)

CharAt(s, i) == SubSeq(s, i, i)
StartsWith(s, prefix) == Len(s) >= Len(prefix) /\ SubSeq(s, 1, Len(prefix)) = prefix
Contains(s, part) ==
    \E i \in 1..(Len(s) - Len(part) + 1) : SubSeq(s, i, i + Len(part) - 1) = part

----------------------------------------------------------------------------
(* Type tags: name@version.                                                *)

\* a tag is <<name, ver>>; ver is NoVer (Python's None) or <<version>>
NoVer == <<>>
Ver(s) == <<s>>
Tag(name, ver) == <<name, ver>>

FirstAt(tag) ==
    LET ats == {i \in 1..Len(tag) : CharAt(tag, i) = "@"}
    IN  IF ats = {} THEN 0 ELSE CHOOSE i \in ats : \A j \in ats : i <= j

\* the text after the first '@'
AfterAt(tag) == SubSeq(tag, FirstAt(tag) + 1, Len(tag))

\* _TYPE_TAG_RE.match(tag) is not None: [^@]+ takes everything before the
\* first '@'; '.' does not match a newline and '$' matches at the end of the
\* string or before a newline that ends it
TagMatchesNonEmpty(tag) == Len(tag) > 0
TagMatches(tag) ==
    IF FirstAt(tag) = 0 THEN Len(tag) > 0
    ELSE /\ FirstAt(tag) > 1
         /\ LET rest == AfterAt(tag)
                newlines == {i \in 1..Len(rest) : CharAt(rest, i) = "\n"}
            IN  /\ Len(rest) > 0
                /\ rest # "\n"
                /\ newlines \subseteq {Len(rest)}

\* m.group("name"), m.group("ver") of a tag that matches
parse_type_tag(tag) ==
    IF FirstAt(tag) = 0 THEN Tag(tag, NoVer)
    ELSE LET rest == AfterAt(tag)
             ver == IF CharAt(rest, Len(rest)) = "\n"
                    THEN SubSeq(rest, 1, Len(rest) - 1) ELSE rest
         IN  Tag(SubSeq(tag, 1, FirstAt(tag) - 1), Ver(ver))

----------------------------------------------------------------------------
(* The schema matcher, ESMLValidator._validate_json.  A result is "ok", the  *)
(* reason of the ESMLValidationError raised (the message without its       *)
(* context label and quoted details), or the name of another exception.    *)

OK == "ok"

\* the exceptions that are not ESMLValidationError
Crashes == {"TypeError", "AttributeError", "ValueError", "RecursionError"}

\* registry.get(name, {}).get(ver): the registry is keyed by <<name, ver>>
IsRegistered(reg, tag) == tag \in DOMAIN reg

\* `"$ref" in schema` and schema.get(...) when schema is not a dict
NonDictSchema(schema) ==
    CASE schema.k = "str" ->
            (IF Contains(schema.v, "$ref") THEN "TypeError" ELSE "AttributeError")
      [] schema.k = "arr" ->
            (IF InList(JStr("$ref"), schema) THEN "TypeError" ELSE "AttributeError")
      [] OTHER -> "TypeError"

RefPrefix == "#/$defs/"

\* ref[len("#/$defs/"):]
RefTag(ref) == SubSeq(ref.v, Len(RefPrefix) + 1, Len(ref.v))

\* isinstance(ref, str) and ref.startswith("#/$defs/")
SupportedRef(ref) == IsStr(ref) /\ StartsWith(ref.v, RefPrefix)

\* isinstance(value, int) and not isinstance(value, bool)
IsIntegerOrBool(value) == value.k \in {"int", "bool"}
IsInteger(value) == value.k = "int"

\* (isinstance(value, int) or isinstance(value, float)) and not isinstance(value, bool)
IsNumber(value) == value.k \in {"int", "float"}

\* what `for req in required` iterates over, or the exception it raises
Iterable(x) == x.k \in {"arr", "str", "obj"}
Iterate(x) ==
    CASE x.k = "arr" -> x.v
      [] x.k = "str" -> [i \in 1..Len(x.v) |-> JStr(CharAt(x.v, i))]
      [] x.k = "obj" -> [i \in 1..Len(x.v) |-> JStr(x.v[i][1])]

\* a list or a dict cannot be looked up in a dict
Hashable(x) == x.k \notin {"arr", "obj"}

\* `req in value` for a dict value: the keys of a decoded object are strings
InDict(req, value) == IsStr(req) /\ Has(value, req.v)

RECURSIVE ValidateJson(_, _, _, _)
RECURSIVE RequiredLoop(_, _, _)
RECURSIVE PropsLoop(_, _, _, _)
RECURSIVE AdditionalLoop(_, _, _, _, _)
RECURSIVE ItemsLoop(_, _, _, _)

\* for req in required: if req not in value: raise
RequiredLoop(value, required, i) ==
    IF i > Len(required) THEN OK
    ELSE IF ~Hashable(required[i]) THEN "TypeError"
    ELSE IF ~InDict(required[i], value) THEN "missing required property"
    ELSE RequiredLoop(value, required, i + 1)

\* a loop over props.items() that takes every property for a required one
RECURSIVE PropsLoopAllPresent(_, _, _, _)
PropsLoopAllPresent(value, props, reg, i) ==
    IF i > Len(props.v) THEN OK
    ELSE IF ~Has(value, props.v[i][1]) THEN "missing required property"
    ELSE LET r == ValidateJson(Lookup(value, props.v[i][1]), props.v[i][2], reg, 0)
         IN  IF r # OK THEN r ELSE PropsLoopAllPresent(value, props, reg, i + 1)

\* for k, subschema in props.items(): if k in value: match value[k]
PropsLoop(value, props, reg, i) ==
    IF i > Len(props.v) THEN OK
    ELSE LET k == props.v[i][1]
             r == IF Has(value, k)
                  THEN ValidateJson(Lookup(value, k), props.v[i][2], reg, 0)
                  ELSE OK
         IN  IF r # OK THEN r ELSE PropsLoop(value, props, reg, i + 1)

\* for k in value: if k not in props: raise (ap is False) or match against ap
AdditionalLoop(value, props, ap, reg, i) ==
    IF i > Len(value.v) THEN OK
    ELSE LET k == value.v[i][1]
             r == IF Has(props, k) THEN OK
                  ELSE IF ap = JBool(FALSE) THEN "additional property not allowed"
                  ELSE ValidateJson(value.v[i][2], ap, reg, 0)
         IN  IF r # OK THEN r ELSE AdditionalLoop(value, props, ap, reg, i + 1)

\* the additionalProperties part of the object branch
AdditionalPropertiesLax(value, schema, props, reg) ==
    LET ap == GetOr(schema, "additionalProperties", JBool(TRUE))
    IN  IF IsDict(ap) THEN AdditionalLoop(value, props, ap, reg, 1) ELSE OK
AdditionalProperties(value, schema, props, reg) ==
    LET ap == GetOr(schema, "additionalProperties", JBool(TRUE))
    IN  IF ap = JBool(FALSE) \/ IsDict(ap)
        THEN AdditionalLoop(value, props, ap, reg, 1)
        ELSE OK

\* a loop over the items that stops after the first one
ItemsLoopFirstOnly(value, item_schema, reg, i) ==
    IF Len(value.v) = 0 THEN OK
    ELSE ValidateJson(value.v[1], item_schema, reg, 0)

\* for i, item in enumerate(value): match item against items
ItemsLoop(value, item_schema, reg, i) ==
    IF i > Len(value.v) THEN OK
    ELSE LET r == ValidateJson(value.v[i], item_schema, reg, 0)
         IN  IF r # OK THEN r ELSE ItemsLoop(value, item_schema, reg, i + 1)

\* the branch t == "object"
ValidateObject(value, schema, reg) ==
    IF ~IsDict(value) THEN "expected object"
    ELSE LET rawprops == Get(schema, "properties")
             props == IF Truthy(rawprops) THEN rawprops ELSE JObj(<<>>)
             rawreq == Get(schema, "required")
             required == IF Truthy(rawreq) THEN rawreq ELSE JArr(<<>>)
         IN  IF ~Iterable(required) THEN "TypeError"
             ELSE LET r1 == RequiredLoop(value, Iterate(required), 1)
                  IN  IF r1 # OK THEN r1
                      ELSE IF ~IsDict(props) THEN "AttributeError"
                      ELSE LET r2 == PropsLoop(value, props, reg, 1)
                           IN  IF r2 # OK THEN r2
                               ELSE AdditionalProperties(value, schema, props, reg)

\* the branch t == "array"
ValidateArray(value, schema, reg) ==
    IF ~IsList(value) THEN "expected array"
    ELSE IF IsNone(Get(schema, "items")) THEN OK
    ELSE ItemsLoop(value, Get(schema, "items"), reg, 1)

\* the dispatch on t = schema.get("type")
ValidateType(value, schema, reg) ==
    LET t == Get(schema, "type")
    IN  CASE t = JStr("object") -> ValidateObject(value, schema, reg)
          [] t = JStr("array") -> ValidateArray(value, schema, reg)
          [] t = JStr("string") -> (IF IsStr(value) THEN OK ELSE "expected string")
          [] t = JStr("integer") -> (IF IsInteger(value) THEN OK ELSE "expected integer")
          [] t = JStr("number") -> (IF IsNumber(value) THEN OK ELSE "expected number")
          [] t = JStr("boolean") -> (IF IsBool(value) THEN OK ELSE "expected boolean")
          [] IsNone(t) -> OK
          [] OTHER -> "unsupported type"

\* the branch `"$ref" in schema`.  hops counts the $ref steps taken in a row
\* with the same value; more of them than the registry has entries means the
\* references form a cycle, which ends in Python's RecursionError.
ResolveRefNoVersion(value, schema, reg, hops) ==
    LET ref == Lookup(schema, "$ref")
    IN  IF ~SupportedRef(ref) THEN "unsupported $ref"
        ELSE IF ~TagMatches(RefTag(ref)) THEN "ValueError"
        ELSE LET unversioned == Tag(parse_type_tag(RefTag(ref))[1], NoVer)
             IN  IF ~IsRegistered(reg, unversioned) THEN "$ref not found"
                 ELSE IF hops >= Cardinality(DOMAIN reg) THEN "RecursionError"
                 ELSE ValidateJson(value, reg[unversioned], reg, hops + 1)
ResolveRef(value, schema, reg, hops) ==
    LET ref == Lookup(schema, "$ref")
    IN  IF ~SupportedRef(ref) THEN "unsupported $ref"
        ELSE IF ~TagMatches(RefTag(ref)) THEN "ValueError"
        ELSE IF ~IsRegistered(reg, parse_type_tag(RefTag(ref))) THEN "$ref not found"
        ELSE IF hops >= Cardinality(DOMAIN reg) THEN "RecursionError"
        ELSE ValidateJson(value, reg[parse_type_tag(RefTag(ref))], reg, hops + 1)

ValidateJson(value, schema, reg, hops) ==
    IF ~IsDict(schema) THEN NonDictSchema(schema)
    ELSE IF Has(schema, "$ref") THEN ResolveRef(value, schema, reg, hops)
    ELSE ValidateType(value, schema, reg)

----------------------------------------------------------------------------
(* The builtin schema and the two structural predicates on schemas.        *)

BootstrapName == "TypeDeclared"
BootstrapTag == Tag(BootstrapName, NoVer)

BUILTIN_TYPEDECLARED_SCHEMA ==
    JObj(<< <<"type", JStr("object")>>,
            <<"properties", JObj(<< <<"name", JObj(<< <<"type", JStr("string")>> >>)>>,
                                    <<"log", JObj(<< <<"type", JStr("string")>> >>)>>,
                                    <<"schema", JObj(<< <<"type", JStr("object")>> >>)>> >>)>>,
            <<"required", JArr(<<JStr("name"), JStr("schema")>>)>>,
            <<"additionalProperties", JBool(FALSE)>> >>)

\* d[key] = value on a dict
SetKey(o, key, value) ==
    IF Has(o, key)
    THEN JObj([i \in 1..Len(o.v) |-> IF o.v[i][1] = key THEN <<key, value>> ELSE o.v[i]])
    ELSE JObj(Append(o.v, <<key, value>>))

\* d.pop(key) on a dict that has the key
PopKey(o, key) == JObj(SelectSeq(o.v, LAMBDA p : p[1] # key))

\* dict(x) for x that is not a dict: the exception raised by the first element
\* that is not a pair with a hashable first item, or "" when there is none
RECURSIVE DictError(_, _)
DictError(items, i) ==
    IF i > Len(items) THEN ""
    ELSE IF ~Iterable(items[i]) THEN "TypeError"
    ELSE IF Len(Iterate(items[i])) # 2 THEN "ValueError"
    ELSE IF ~Hashable(Iterate(items[i])[1]) THEN "TypeError"
    ELSE DictError(items, i + 1)

\* dict(x) of a sequence of pairs whose first items are strings
RECURSIVE DictFromPairs(_, _, _)
DictFromPairs(items, i, acc) ==
    IF i > Len(items) THEN acc
    ELSE DictFromPairs(items, i + 1,
                       SetKey(acc, Iterate(items[i])[1].v, Iterate(items[i])[2]))

\* dict(x): [exc |-> the exception or "", strkeys |-> every key is a string,
\* d |-> the dict when exc = "" and strkeys].  A dict with a key that is not
\* a string equals no dict decoded from JSON.
DictOf(x) ==
    IF IsDict(x) THEN [exc |-> "", strkeys |-> TRUE, d |-> x]
    ELSE IF ~Iterable(x) THEN [exc |-> "TypeError", strkeys |-> TRUE, d |-> JObj(<<>>)]
    ELSE LET items == Iterate(x)
         IN  IF DictError(items, 1) # ""
             THEN [exc |-> DictError(items, 1), strkeys |-> TRUE, d |-> JObj(<<>>)]
             ELSE IF \E i \in 1..Len(items) : ~IsStr(Iterate(items[i])[1])
             THEN [exc |-> "", strkeys |-> FALSE, d |-> JObj(<<>>)]
             ELSE [exc |-> "", strkeys |-> TRUE, d |-> DictFromPairs(items, 1, JObj(<<>>))]

\* normalize(s) of _same_typedeclared_schema, for s whose properties make a
\* dict with string keys
Normalize(s) ==
    LET props == DictOf(GetOr(s, "properties", JObj(<<>>))).d
    IN  SetKey(s, "properties", IF Has(props, "log") THEN PopKey(props, "log") ELSE props)

\* _same_typedeclared_schema(file_schema): "True", "False" or the exception
SameTypeDeclaredSchemaKeepingLog(file_schema) ==
    IF PyEq(file_schema, BUILTIN_TYPEDECLARED_SCHEMA) THEN "True" ELSE "False"
SameTypeDeclaredSchema(file_schema) ==
    LET made == DictOf(GetOr(file_schema, "properties", JObj(<<>>)))
    IN  IF made.exc # "" THEN made.exc
        ELSE IF ~made.strkeys THEN "False"
        ELSE IF PyEq(Normalize(file_schema), Normalize(BUILTIN_TYPEDECLARED_SCHEMA))
             THEN "True" ELSE "False"

\* _schema_looks_like_declarer(schema)
SchemaLooksLikeDeclarerNever(schema) == FALSE
SchemaLooksLikeDeclarer(schema) ==
    /\ IsDict(schema)
    /\ PyEq(Get(schema, "type"), JStr("object"))
    /\ IsDict(Get(schema, "properties"))
    /\ Has(Get(schema, "properties"), "name")
    /\ Has(Get(schema, "properties"), "schema")
    /\ IsList(GetOr(schema, "required", JArr(<<>>)))
    /\ InList(JStr("name"), GetOr(schema, "required", JArr(<<>>)))
    /\ InList(JStr("schema"), GetOr(schema, "required", JArr(<<>>)))

----------------------------------------------------------------------------
(* The streams the model validates: every value comes from EventInputs.    *)

\* the longest stream of a run
MaxEvents == 3

\* {"type": t, "data": d}
Event(t, d) == JObj(<< <<"type", JStr(t)>>, <<"data", d>> >>)
\* a declaration event of declarer type `by`
Declare(by, name, schema) ==
    Event(by, JObj(<< <<"name", JStr(name)>>, <<"schema", schema>> >>))

TString == JObj(<< <<"type", JStr("string")>> >>)
TObject == JObj(<< <<"type", JStr("object")>> >>)
TAny == JObj(<<>>)

\* the builtin schema without its `log` property
BuiltinWithoutLog ==
    SetKey(BUILTIN_TYPEDECLARED_SCHEMA, "properties",
           PopKey(Get(BUILTIN_TYPEDECLARED_SCHEMA, "properties"), "log"))
\* the builtin schema with additionalProperties true, and with 0
BuiltinOpen == SetKey(BUILTIN_TYPEDECLARED_SCHEMA, "additionalProperties", JBool(TRUE))
BuiltinZero == SetKey(BUILTIN_TYPEDECLARED_SCHEMA, "additionalProperties", JInt(0))

\* a schema of the declarer shape that constrains neither name nor schema
DeclarerShaped ==
    JObj(<< <<"type", JStr("object")>>,
            <<"properties", JObj(<< <<"name", TAny>>, <<"schema", TAny>> >>)>>,
            <<"required", JArr(<<JStr("name"), JStr("schema")>>)>> >>)

\* object{required key: string}
Requires(key) ==
    JObj(<< <<"type", JStr("object")>>,
            <<"properties", JObj(<< <<key, TString>> >>)>>,
            <<"required", JArr(<<JStr(key)>>)>> >>)

Hi(key) == JObj(<< <<key, JStr("hi")>> >>)

EventInputs ==
    { Declare("TypeDeclared", "TypeDeclared", BUILTIN_TYPEDECLARED_SCHEMA),
      Declare("TypeDeclared", "TypeDeclared", BuiltinWithoutLog),
      Declare("TypeDeclared", "TypeDeclared", BuiltinOpen),
      Declare("TypeDeclared", "TypeDeclared", BuiltinZero),
      Declare("TypeDeclared", "Foo", DeclarerShaped),
      Declare("TypeDeclared", "Foo", TString),
      Declare("TypeDeclared", "Greeting", Requires("text")),
      Declare("TypeDeclared", "Greeting", Requires("msg")),
      Declare("TypeDeclared", "Greeting@v1", Requires("msg")),
      Declare("TypeDeclared", "TypeDeclared@v1", TString),
      Declare("TypeDeclared", "Ref", JObj(<< <<"$ref", JStr("#/$defs/Greeting")>> >>)),
      Event("TypeDeclared", JObj(<< <<"name", JStr("Greeting")>>,
                                    <<"schema", Requires("text")>>,
                                    <<"log", JStr("hello")>> >>)),
      SetKey(Declare("TypeDeclared", "Greeting", Requires("text")), "meta", JInt(1)),
      Declare("Foo", "Greeting", Requires("msg")),
      Declare("Foo", "TypeDeclared", BUILTIN_TYPEDECLARED_SCHEMA),
      Event("Foo", JObj(<< <<"name", JInt(5)>>, <<"schema", TAny>> >>)),
      Event("Foo", JStr("hi")),
      Event("Greeting", Hi("text")),
      Event("Greeting", Hi("msg")),
      Event("Greeting@v1", Hi("msg")),
      Event("Greeting@v2", Hi("msg")),
      Event("Ref", Hi("text")),
      Event("Unknown", Hi("text")),
      Event("Foo@", Hi("text")),
      JInt(1),
      JNull,
      JBool(TRUE),
      JStr("Greeting"),
      JArr(<<Event("Greeting", Hi("text"))>>),
      JObj(<< <<"data", Hi("text")>> >>),
      JObj(<< <<"type", JStr("Greeting")>> >>),
      JObj(<< <<"type", JInt(1)>>, <<"data", Hi("text")>> >>) }

----------------------------------------------------------------------------
(* ESMLValidator._validate_event and _handle_declarer_event, as functions  *)
(* of the validator object: v is the object before the call, the result    *)
(* is the object after it.                                                 *)

NoIndex == 0 - 1
NoError == [reason |-> "", event_index |-> NoIndex, line |-> 0, col |-> 0]

\* the four checks at the head of _validate_event; without the last one a
\* type that is not a string reaches re.match, which raises TypeError
EventShapeAnyType(obj) ==
    IF ~IsDict(obj) THEN "event must be an object"
    ELSE IF ~Has(obj, "type") THEN "event missing 'type'"
    ELSE IF ~Has(obj, "data") THEN "event missing 'data'"
    ELSE IF ~IsStr(Lookup(obj, "type")) THEN "TypeError"
    ELSE OK
EventShape(obj) ==
    IF ~IsDict(obj) THEN "event must be an object"
    ELSE IF ~Has(obj, "type") THEN "event missing 'type'"
    ELSE IF ~Has(obj, "data") THEN "event missing 'data'"
    ELSE IF ~IsStr(Lookup(obj, "type")) THEN "'type' must be a string"
    ELSE OK

\* the special case of _handle_declarer_event: TypeDeclared (no version) may
\* only appear once and must match
SelfDeclarationResult(same) ==
    IF same = "True" THEN OK
    ELSE IF same = "False" THEN "redefine TypeDeclared with a different shape"
    ELSE same
SelfDeclarationRuleAnyVersion(dtag, dschema, declared) ==
    IF dtag[1] # BootstrapName THEN OK
    ELSE IF \E i \in 1..Len(declared) : declared[i] = BootstrapTag
    THEN "TypeDeclared may only be declared once"
    ELSE SelfDeclarationResult(SameTypeDeclaredSchema(dschema))
SelfDeclarationRule(dtag, dschema, declared) ==
    IF dtag # BootstrapTag THEN OK
    ELSE IF \E i \in 1..Len(declared) : declared[i] = BootstrapTag
    THEN "TypeDeclared may only be declared once"
    ELSE SelfDeclarationResult(SameTypeDeclaredSchema(dschema))

\* checks that also refuse a declared schema whose type has no branch in
\* _validate_json
DeclaredChecksWithSchemaType(r, payload, declared) ==
    IF r # OK THEN r
    ELSE IF ~IsDict(payload) THEN "AttributeError"
    ELSE IF ~IsStr(Get(payload, "name")) THEN "declared 'name' must be string"
    ELSE IF ~IsDict(Get(payload, "schema")) THEN "'schema' must be object"
    ELSE IF Get(Get(payload, "schema"), "type")
            \notin {JNull, JStr("object"), JStr("array"), JStr("string"),
                    JStr("integer"), JStr("number"), JStr("boolean")}
    THEN "unsupported type"
    ELSE IF ~TagMatches(Get(payload, "name").v) THEN "ValueError"
    ELSE SelfDeclarationRule(parse_type_tag(Get(payload, "name").v),
                             Get(payload, "schema"), declared)

\* _handle_declarer_event up to the registration: OK or what is raised.
\* DeclaredChecks is what follows the match of the payload, whose result is r
DeclaredChecks(r, payload, declared) ==
    IF r # OK THEN r
    ELSE IF ~IsDict(payload) THEN "AttributeError"
    ELSE IF ~IsStr(Get(payload, "name")) THEN "declared 'name' must be string"
    ELSE IF ~IsDict(Get(payload, "schema")) THEN "'schema' must be object"
    ELSE IF ~TagMatches(Get(payload, "name").v) THEN "ValueError"
    ELSE SelfDeclarationRule(parse_type_tag(Get(payload, "name").v),
                             Get(payload, "schema"), declared)
DeclarerChecks(declarer, payload, reg, declared) ==
    IF ~IsRegistered(reg, declarer) THEN "not registered"
    ELSE DeclaredChecks(ValidateJson(payload, reg[declarer], reg, 0), payload, declared)

\* self.registry.setdefault(dname, {})[dver] = dschema
RegisterFirstWins(reg, dtag, dschema) ==
    IF dtag \in DOMAIN reg THEN reg ELSE reg @@ (dtag :> dschema)
RegisterNothing(reg, dtag, dschema) == reg
\* a registration that binds a $ref early: the schema the reference names at
\* the time of the declaration is stored in its place
RegisterResolvingRefs(reg, dtag, dschema) ==
    LET bound == IF /\ Has(dschema, "$ref")
                    /\ SupportedRef(Lookup(dschema, "$ref"))
                    /\ TagMatches(RefTag(Lookup(dschema, "$ref")))
                    /\ parse_type_tag(RefTag(Lookup(dschema, "$ref"))) \in DOMAIN reg
                 THEN reg[parse_type_tag(RefTag(Lookup(dschema, "$ref")))]
                 ELSE dschema
    IN  IF dtag \in DOMAIN reg THEN [reg EXCEPT ![dtag] = bound] ELSE reg @@ (dtag :> bound)
Register(reg, dtag, dschema) ==
    IF dtag \in DOMAIN reg THEN [reg EXCEPT ![dtag] = dschema] ELSE reg @@ (dtag :> dschema)

\* if self._schema_looks_like_declarer(dschema): self.declarator_candidates.add(...)
RememberDeclarerOrForget(candidates, dtag, dschema) ==
    IF SchemaLooksLikeDeclarer(dschema) THEN candidates \cup {dtag} ELSE candidates \ {dtag}
RememberDeclarer(candidates, dtag, dschema) ==
    IF SchemaLooksLikeDeclarer(dschema) THEN candidates \cup {dtag} ELSE candidates

\* _inc_event_type
IncEventTypeOnce(counts, tag) ==
    IF tag \in DOMAIN counts THEN counts ELSE counts @@ (tag :> 1)
IncEventType(counts, tag) ==
    IF tag \in DOMAIN counts THEN [counts EXCEPT ![tag] = @ + 1] ELSE counts @@ (tag :> 1)

\* the lookup of a normal event, then the match
NormalChecksAnyType(tag, payload, reg) ==
    IF ~IsRegistered(reg, tag) THEN OK
    ELSE ValidateJson(payload, reg[tag], reg, 0)
NormalChecks(tag, payload, reg) ==
    IF ~IsRegistered(reg, tag) THEN "used before declaration"
    ELSE ValidateJson(payload, reg[tag], reg, 0)

\* the index an ESMLValidationError raised for this event carries
ErrorIndexOneBased(index, count) == index + 1
ErrorIndex(index, count) == index

\* the validator object and the locals of validate_text that outlive a call
\* of _validate_event
self ==
    [collect_summary |-> collect_summary,
     registry |-> registry,
     declarator_candidates |-> declarator_candidates,
     event_count |-> event_count,
     declarer_event_count |-> declarer_event_count,
     normal_event_count |-> normal_event_count,
     declared_types |-> declared_types,
     event_type_counts |-> event_type_counts,
     event_index |-> event_index,
     pc |-> pc,
     error |-> error]

\* ESMLValidator.__init__(collect_summary), and validate_text entered
NewValidatorKnowingGreeting(summary) ==
    [collect_summary |-> summary,
     registry |-> (BootstrapTag :> BUILTIN_TYPEDECLARED_SCHEMA)
                  @@ (Tag("Greeting", NoVer) :> Requires("text")),
     declarator_candidates |-> {BootstrapTag},
     event_count |-> 0,
     declarer_event_count |-> 0,
     normal_event_count |-> 0,
     declared_types |-> <<>>,
     event_type_counts |-> <<>>,
     event_index |-> 0,
     pc |-> "loop",
     error |-> NoError]
NewValidator(summary) ==
    [collect_summary |-> summary,
     registry |-> (BootstrapTag :> BUILTIN_TYPEDECLARED_SCHEMA),
     declarator_candidates |-> {BootstrapTag},
     event_count |-> 0,
     declarer_event_count |-> 0,
     normal_event_count |-> 0,
     declared_types |-> <<>>,
     event_type_counts |-> <<>>,
     event_index |-> 0,
     pc |-> "loop",
     error |-> NoError]

\* the end of an iteration of validate_text's loop
Advance(v) ==
    [v EXCEPT !.event_index = @ + 1, !.event_count = @ + 1]

\* raise: result r, which is not OK, ends the run.  An ESMLValidationError
\* carries the index, line and column _validate_event was called with; the
\* other exceptions carry none of them.
RaiseAndContinue(v, r, line, col) ==
    [v EXCEPT !.error = [reason |-> r, event_index |-> v.event_index,
                         line |-> line, col |-> col]]
Raise(v, r, line, col) ==
    IF r \in Crashes
    THEN [v EXCEPT !.pc = "crashed",
                   !.error = [reason |-> r, event_index |-> NoIndex,
                              line |-> 0, col |-> 0]]
    ELSE [v EXCEPT !.pc = "error",
                   !.error = [reason |-> r,
                              event_index |-> ErrorIndex(v.event_index, v.event_count),
                              line |-> line, col |-> col]]

\* what a call of _validate_event leaves: the object, and for the properties
\* which path the event took ("malformed", "declarer", "normal") with its result
Outcome(v, path, r) == [self |-> v, outcome |-> [as |-> path, result |-> r]]

\* an end of _handle_declarer_event that registers the schema before the
\* self-declaration rule has its say
RegisterDeclaredBeforeRule(v, payload, line, col, r) ==
    LET dtag == parse_type_tag(Get(payload, "name").v)
        dschema == Get(payload, "schema")
    IN  Outcome(IF r = "redefine TypeDeclared with a different shape"
                THEN Raise([v EXCEPT !.registry = Register(@, dtag, dschema)], r, line, col)
                ELSE IF r # OK THEN Raise(v, r, line, col)
                ELSE [v EXCEPT !.registry = Register(@, dtag, dschema),
                               !.declared_types = IF v.collect_summary
                                                  THEN Append(@, dtag) ELSE @,
                               !.declarator_candidates =
                                   RememberDeclarer(@, dtag, dschema)],
                "declarer", r)

\* _handle_declarer_event(name, ver, payload, line, col, event_index);
\* RegisterDeclared is its end, from line 293 on, once the checks gave r
RegisterDeclared(v, payload, line, col, r) ==
    LET dtag == parse_type_tag(Get(payload, "name").v)
        dschema == Get(payload, "schema")
    IN  Outcome(IF r # OK THEN Raise(v, r, line, col)
                ELSE [v EXCEPT !.registry = Register(@, dtag, dschema),
                               !.declared_types = IF v.collect_summary
                                                  THEN Append(@, dtag) ELSE @,
                               !.declarator_candidates =
                                   RememberDeclarer(@, dtag, dschema)],
                "declarer", r)
HandleDeclarerEvent(v, declarer, payload, line, col) ==
    RegisterDeclared(v, payload, line, col,
                     DeclarerChecks(declarer, payload, v.registry, v.declared_types))

\* the end of _validate_event for a normal event, once the checks gave r
NormalEvent(v, line, col, r) ==
    Outcome(IF r # OK THEN Raise(v, r, line, col) ELSE v, "normal", r)

\* _validate_event(obj, event_index, line, col)
ValidateEventOn(v, obj, line, col) ==
    IF EventShape(obj) # OK
    THEN Outcome(Raise(v, EventShape(obj), line, col), "malformed", EventShape(obj))
    ELSE IF ~TagMatches(Lookup(obj, "type").v)
    THEN Outcome(Raise(v, "ValueError", line, col), "malformed", "ValueError")
    ELSE LET tag == parse_type_tag(Lookup(obj, "type").v)
             payload == Lookup(obj, "data")
             counted == IF v.collect_summary
                        THEN [v EXCEPT !.event_type_counts = IncEventType(@, tag)]
                        ELSE v
         IN  IF tag \in v.declarator_candidates
             THEN HandleDeclarerEvent(
                      IF v.collect_summary
                      THEN [counted EXCEPT !.declarer_event_count = @ + 1]
                      ELSE counted,
                      tag, payload, line, col)
             ELSE NormalEvent(
                      IF v.collect_summary /\ IsRegistered(v.registry, tag)
                      THEN [counted EXCEPT !.normal_event_count = @ + 1]
                      ELSE counted,
                      line, col, NormalChecks(tag, payload, v.registry))

\* one iteration of validate_text's loop once obj is decoded: the call of
\* _validate_event, then the three assignments that follow it when it returns
AfterEvent(got) ==
    [self |-> IF got.self.pc = "loop" THEN Advance(got.self) ELSE got.self,
     outcome |-> got.outcome]
Iteration(v, obj, line, col) == AfterEvent(ValidateEventOn(v, obj, line, col))

\* the object v becomes the state
Store(v) ==
    /\ collect_summary' = v.collect_summary
    /\ registry' = v.registry
    /\ declarator_candidates' = v.declarator_candidates
    /\ event_count' = v.event_count
    /\ declarer_event_count' = v.declarer_event_count
    /\ normal_event_count' = v.normal_event_count
    /\ declared_types' = v.declared_types
    /\ event_type_counts' = v.event_type_counts
    /\ event_index' = v.event_index
    /\ pc' = v.pc
    /\ error' = v.error

\* the iteration that read obj left got
StoreOutcome(got, obj) ==
    /\ Store(got.self)
    /\ stream' = Append(stream, obj)
    /\ outcomes' = Append(outcomes, got.outcome)

\* one iteration of validate_text's loop: the next value of the text is obj.
\* The text holds one value per line, so value number i starts at line i,
\* column 1.
ValidateEvent(obj) ==
    /\ pc = "loop"
    /\ Len(stream) < MaxEvents
    /\ StoreOutcome(Iteration(self, obj, Len(stream) + 1, 1), obj)
    /\ UNCHANGED other_vars

\* validate_text: idx >= n ends the loop
EndOfText ==
    /\ pc = "loop"
    /\ pc' = "done"
    /\ UNCHANGED <<collect_summary, registry, declarator_candidates, event_count,
                   declarer_event_count, normal_event_count, declared_types,
                   event_type_counts, event_index, error, stream, outcomes, other_vars>>

\* the object v is the state
StartAs(v) ==
    /\ collect_summary = v.collect_summary
    /\ registry = v.registry
    /\ declarator_candidates = v.declarator_candidates
    /\ event_count = v.event_count
    /\ declarer_event_count = v.declarer_event_count
    /\ normal_event_count = v.normal_event_count
    /\ declared_types = v.declared_types
    /\ event_type_counts = v.event_type_counts
    /\ event_index = v.event_index
    /\ pc = v.pc
    /\ error = v.error

\* the variables of the other specifications, at rest
TextOff ==
    /\ text = ""
    /\ idx = 0
MatcherOff ==
    /\ m_pc = "off"
    /\ m_value = JNull
    /\ m_schema = TAny
    /\ m_tag = BootstrapTag
    /\ m_direct = ""
    /\ m_viaref = ""
TagOff ==
    /\ t_pc = "off"
    /\ t_tag = ""
    /\ t_result = [ok |-> FALSE, error |-> ""]
TwoOff ==
    /\ class_schema = BUILTIN_TYPEDECLARED_SCHEMA
    /\ inst = <<>>
AgainOff == earlier = <<>>
NoStatus == 0 - 1
MainOff ==
    /\ main_pc = "off"
    /\ argv = <<>>
    /\ exit_status = NoStatus

\* ESMLValidator.__init__, then validate_text is entered
Init ==
    /\ \E summary \in BOOLEAN : StartAs(NewValidator(summary))
    /\ stream = <<>>
    /\ outcomes = <<>>
    /\ TextOff
    /\ MatcherOff
    /\ TagOff
    /\ TwoOff
    /\ AgainOff
    /\ MainOff

Next ==
    \/ \E obj \in EventInputs : ValidateEvent(obj)
    \/ EndOfText

Spec == Init /\ [][Next]_vars

----------------------------------------------------------------------------
(* The schema matcher applied on its own: a value, and a schema registered *)
(* under a tag next to the builtin one.                                    *)

\* the tag as get_summary prints it: name, or name@ver
TagString(tag) == IF tag[2] = NoVer THEN tag[1] ELSE tag[1] \o "@" \o tag[2][1]

RefTo(tag) == JObj(<< <<"$ref", JStr(RefPrefix \o TagString(tag))>> >>)

\* object{properties: {a: string}} with the given additionalProperties
OpenObject == JObj(<< <<"type", JStr("object")>>,
                      <<"properties", JObj(<< <<"a", TString>> >>)>> >>)
WithAdditional(ap) == SetKey(OpenObject, "additionalProperties", ap)
\* properties a (required, a string) and b (not required, an integer)
TwoProperties ==
    JObj(<< <<"type", JStr("object")>>,
            <<"properties", JObj(<< <<"a", TString>>,
                                    <<"b", JObj(<< <<"type", JStr("integer")>> >>)>> >>)>>,
            <<"required", JArr(<<JStr("a")>>)>> >>)

MatchValues ==
    { JNull, JBool(TRUE), JBool(FALSE), JInt(0), JInt(1), JFloat(3), JStr("hi"),
      JArr(<<>>), JArr(<<JInt(1), JStr("hi")>>),
      JArr(<<JStr("hi")>>), JArr(<<JStr("hi"), JInt(1)>>),
      JObj(<<>>),
      JObj(<< <<"a", JStr("x")>> >>),
      JObj(<< <<"a", JInt(1)>> >>),
      JObj(<< <<"b", JStr("y")>> >>),
      JObj(<< <<"a", JStr("x")>>, <<"b", JStr("y")>> >>),
      JObj(<< <<"a", JStr("x")>>, <<"b", JInt(2)>> >>),
      JObj(<< <<"b", JStr("y")>>, <<"c", JBool(TRUE)>> >>) }

MatchSchemas ==
    { TAny, TString, TObject,
      JObj(<< <<"type", JStr("integer")>> >>),
      JObj(<< <<"type", JStr("number")>> >>),
      JObj(<< <<"type", JStr("boolean")>> >>),
      JObj(<< <<"type", JStr("array")>>, <<"items", TString>> >>),
      JObj(<< <<"type", JStr("array")>> >>),
      JObj(<< <<"type", JStr("array")>>, <<"items", RefTo(Tag("Other", NoVer))>> >>),
      JObj(<< <<"type", JStr("array")>>, <<"items", JObj(<< <<"type", JStr("integer")>> >>)>> >>),
      JObj(<< <<"type", JStr("weird")>> >>),
      JObj(<< <<"type", JStr("String")>> >>),
      JObj(<< <<"type", JInt(5)>> >>),
      JObj(<< <<"type", JNull>> >>),
      OpenObject,
      WithAdditional(JBool(TRUE)),
      WithAdditional(JBool(FALSE)),
      WithAdditional(TString),
      WithAdditional(JInt(0)),
      SetKey(TObject, "additionalProperties", JBool(FALSE)),
      SetKey(TObject, "additionalProperties", TString),
      SetKey(WithAdditional(JBool(FALSE)), "required", JArr(<<JStr("b")>>)),
      SetKey(WithAdditional(TString), "required", JArr(<<JStr("a")>>)),
      TwoProperties,
      RefTo(Tag("T", NoVer)),
      RefTo(Tag("Other", NoVer)),
      RefTo(Tag("Missing", NoVer)),
      SetKey(RefTo(Tag("Other", NoVer)), "type", JStr("integer")),
      JObj(<< <<"$ref", JInt(5)>> >>),
      JObj(<< <<"$ref", JStr("http://example.org/T")>> >>),
      JObj(<< <<"$ref", JStr("#/$defs/")>> >>),
      JObj(<< <<"$ref", JStr("#/$defs/T@")>> >>) }

MatchTags == { Tag("T", NoVer), Tag("T", Ver("v1")), Tag("T", Ver("a@b")), Tag("T\n", NoVer) }

\* what the registry holds besides the builtin schema and the schema matched
MatchRegistry ==
    (BootstrapTag :> BUILTIN_TYPEDECLARED_SCHEMA)
    @@ (Tag("Other", NoVer) :> TString)
    @@ (Tag("T", Ver("v0")) :> JObj(<< <<"type", JStr("weird")>> >>))

InitMatch ==
    /\ m_tag \in MatchTags
    /\ m_schema \in MatchSchemas
    /\ m_value \in MatchValues
    /\ StartAs([NewValidator(FALSE) EXCEPT
                   !.registry = Register(MatchRegistry, m_tag, m_schema),
                   !.pc = "idle"])
    /\ stream = <<>>
    /\ outcomes = <<>>
    /\ m_pc = "start"
    /\ m_direct = ""
    /\ m_viaref = ""
    /\ TextOff
    /\ TagOff
    /\ TwoOff
    /\ AgainOff
    /\ MainOff

\* _validate_json(m_value, m_schema) and _validate_json(m_value, {"$ref": ...})
Match ==
    /\ m_pc = "start"
    /\ m_pc' = "done"
    /\ m_direct' = ValidateJson(m_value, m_schema, registry, 0)
    /\ m_viaref' = ValidateJson(m_value, RefTo(m_tag), registry, 0)
    /\ UNCHANGED <<validator_vars, text_vars, tag_vars, two_vars, again_vars, main_vars,
                   m_value, m_schema, m_tag>>

NextMatch == Match

SpecMatch == InitMatch /\ [][NextMatch]_vars

----------------------------------------------------------------------------
(* The text of a run: json.JSONDecoder.raw_decode and the line and column  *)
(* of an offset.  Offsets count from 0 as in Python.  The decoder covers   *)
(* the JSON of the model's texts: objects, arrays, strings with the        *)
(* one-letter escapes, integers, true, false and null.                     *)

\* s[i:i+1]
At(s, i) == IF 0 <= i /\ i < Len(s) THEN SubSeq(s, i + 1, i + 1) ELSE ""
\* s[i:j]
Slice(s, i, j) == SubSeq(s, i + 1, IF j > Len(s) THEN Len(s) ELSE j)

\* what raw_decode returns, and the JSONDecodeError it raises
Decoded(obj, end) == [ok |-> TRUE, obj |-> obj, end |-> end]
JSONDecodeError(msg, pos) == [ok |-> FALSE, msg |-> msg, pos |-> pos]

\* the whitespace of JSON
JsonWhitespace == {" ", "\t", "\n", "\r"}
RECURSIVE SkipWhitespace(_, _)
SkipWhitespace(s, i) ==
    IF At(s, i) \in JsonWhitespace THEN SkipWhitespace(s, i + 1) ELSE i

Digits == "0123456789"
IsDigit(ch) == \E d \in 0..9 : At(Digits, d) = ch
DigitValue(ch) == CHOOSE d \in 0..9 : At(Digits, d) = ch
RECURSIVE DigitsEnd(_, _)
DigitsEnd(s, i) == IF IsDigit(At(s, i)) THEN DigitsEnd(s, i + 1) ELSE i
RECURSIVE DigitsValue(_, _, _, _)
DigitsValue(s, i, end, acc) ==
    IF i >= end THEN acc
    ELSE DigitsValue(s, i + 1, end, 10 * acc + DigitValue(At(s, i)))

\* an integer at offset i: -?(0|[1-9][0-9]*)
ScanNumber(s, i) ==
    LET first == IF At(s, i) = "-" THEN i + 1 ELSE i
        sign == IF At(s, i) = "-" THEN 0 - 1 ELSE 1
    IN  IF ~IsDigit(At(s, first)) THEN JSONDecodeError("Expecting value", i)
        ELSE IF At(s, first) = "0" THEN Decoded(JInt(0), first + 1)
        ELSE Decoded(JInt(sign * DigitsValue(s, first, DigitsEnd(s, first), 0)),
                     DigitsEnd(s, first))

\* the character a backslash escape stands for
Escapes == {"\"", "\\", "/", "n", "t", "r", "f"}
Unescape(esc) ==
    CASE esc = "n" -> "\n"
      [] esc = "t" -> "\t"
      [] esc = "r" -> "\r"
      [] esc = "f" -> "\f"
      [] OTHER -> esc
ControlCharacters == {"\n", "\t", "\r", "\f"}

\* scanstring: the string whose opening quote is at offset begin, read from i
RECURSIVE ScanString(_, _, _, _)
ScanString(s, begin, i, acc) ==
    LET ch == At(s, i)
    IN  IF ch = "" THEN JSONDecodeError("Unterminated string starting at", begin)
        ELSE IF ch = "\"" THEN Decoded(JStr(acc), i + 1)
        ELSE IF ch \in ControlCharacters
        THEN JSONDecodeError("Invalid control character at", i)
        ELSE IF ch # "\\" THEN ScanString(s, begin, i + 1, acc \o ch)
        ELSE IF At(s, i + 1) = ""
        THEN JSONDecodeError("Unterminated string starting at", begin)
        ELSE IF At(s, i + 1) \notin Escapes THEN JSONDecodeError("Invalid \\escape", i)
        ELSE ScanString(s, begin, i + 2, acc \o Unescape(At(s, i + 1)))

RECURSIVE ScanOnce(_, _)
RECURSIVE ObjectLoop(_, _, _)
RECURSIVE ArrayLoop(_, _, _)

\* the members of an object from offset i, pairs being those read so far
ObjectLoop(s, i, pairs) ==
    IF At(s, i) # "\""
    THEN JSONDecodeError("Expecting property name enclosed in double quotes", i)
    ELSE LET key == ScanString(s, i, i + 1, "")
         IN  IF ~key.ok THEN key
             ELSE LET colon == SkipWhitespace(s, key.end)
                  IN  IF At(s, colon) # ":"
                      THEN JSONDecodeError("Expecting ':' delimiter", colon)
                      ELSE LET val == ScanOnce(s, SkipWhitespace(s, colon + 1))
                           IN  IF ~val.ok THEN val
                               ELSE LET after == SkipWhitespace(s, val.end)
                                        more == SetKey(pairs, key.obj.v, val.obj)
                                    IN  IF At(s, after) = "}" THEN Decoded(more, after + 1)
                                        ELSE IF At(s, after) # ","
                                        THEN JSONDecodeError("Expecting ',' delimiter", after)
                                        ELSE ObjectLoop(s, SkipWhitespace(s, after + 1), more)

\* the items of an array from offset i, items being those read so far
ArrayLoop(s, i, items) ==
    LET val == ScanOnce(s, i)
    IN  IF ~val.ok THEN val
        ELSE LET after == SkipWhitespace(s, val.end)
                 more == JArr(Append(items.v, val.obj))
             IN  IF At(s, after) = "]" THEN Decoded(more, after + 1)
                 ELSE IF At(s, after) # ","
                 THEN JSONDecodeError("Expecting ',' delimiter", after)
                 ELSE ArrayLoop(s, SkipWhitespace(s, after + 1), more)

\* scan_once: the JSON value that starts at offset i
ScanOnce(s, i) ==
    LET ch == At(s, i)
    IN  CASE ch = "\"" -> ScanString(s, i, i + 1, "")
          [] ch = "{" ->
                (IF At(s, SkipWhitespace(s, i + 1)) = "}"
                 THEN Decoded(JObj(<<>>), SkipWhitespace(s, i + 1) + 1)
                 ELSE ObjectLoop(s, SkipWhitespace(s, i + 1), JObj(<<>>)))
          [] ch = "[" ->
                (IF At(s, SkipWhitespace(s, i + 1)) = "]"
                 THEN Decoded(JArr(<<>>), SkipWhitespace(s, i + 1) + 1)
                 ELSE ArrayLoop(s, SkipWhitespace(s, i + 1), JArr(<<>>)))
          [] ch = "n" /\ Slice(s, i, i + 4) = "null" -> Decoded(JNull, i + 4)
          [] ch = "t" /\ Slice(s, i, i + 4) = "true" -> Decoded(JBool(TRUE), i + 4)
          [] ch = "f" /\ Slice(s, i, i + 5) = "false" -> Decoded(JBool(FALSE), i + 5)
          [] OTHER -> ScanNumber(s, i)

\* decoder.raw_decode(text, idx)
RawDecode(s, i) == ScanOnce(s, i)

\* JSONDecodeError.lineno and .colno of offset pos
NewlinesBefore(s, pos) == {i \in 0..(pos - 1) : At(s, i) = "\n"}
DecodeErrorLine(s, pos) == Cardinality(NewlinesBefore(s, pos)) + 1
DecodeErrorCol(s, pos) ==
    IF NewlinesBefore(s, pos) = {} THEN pos + 1
    ELSE pos - (CHOOSE i \in NewlinesBefore(s, pos) :
                    \A j \in NewlinesBefore(s, pos) : j <= i)

\* _line_starts(text): offset 0 and the offset after each newline, ascending
LineStartOffsets(s) == {0} \cup {i + 1 : i \in {j \in 0..(Len(s) - 1) : At(s, j) = "\n"}}
LineStarts(s) ==
    [k \in 1..Cardinality(LineStartOffsets(s)) |->
        CHOOSE o \in LineStartOffsets(s) :
            Cardinality({p \in LineStartOffsets(s) : p < o}) = k - 1]

\* bisect.bisect_right(starts, pos) for a sorted list
BisectRight(starts, pos) == Cardinality({k \in 1..Len(starts) : starts[k] <= pos})

\* a conversion that counts the column from 0
PosToLineColFromZero(starts, pos) ==
    [line |-> BisectRight(starts, pos), col |-> pos - starts[BisectRight(starts, pos)]]

\* _pos_to_linecol(starts, pos); starts[line_idx] of Python is starts[line_idx + 1]
PosToLineCol(starts, pos) ==
    LET line_idx == BisectRight(starts, pos) - 1
    IN  [line |-> line_idx + 1, col |-> (pos - starts[line_idx + 1]) + 1]

\* text[idx].isspace(), for the characters of the model's texts
IsSpace(ch) == ch \in {" ", "\t", "\n", "\r", "\f"}
\* a skip that passes blanks only, not the other whitespace
RECURSIVE SkipBlanksOnly(_, _)
SkipBlanksOnly(s, i) == IF i < Len(s) /\ At(s, i) = " " THEN SkipBlanksOnly(s, i + 1) ELSE i

\* while idx < n and text[idx].isspace(): idx += 1
RECURSIVE SkipSpace(_, _)
SkipSpace(s, i) == IF i < Len(s) /\ IsSpace(At(s, i)) THEN SkipSpace(s, i + 1) ELSE i

\* the pieces the model's texts are made of, and the most pieces in a text
MaxChunks == 3
TextChunks ==
    { " ", "\n", ",",
      "{\"type\":\"TypeDeclared\",\"data\":{\"name\":\"G\",\"schema\":{\"type\":\"string\"}}}",
      "{\"type\":\"TypeDeclared\",\n \"data\":{\"name\":1,\"schema\":{}}}",
      "{\"type\":\"G\",\"data\":\"hi\"}",
      "{\"type\":\"G\",\n\"data\":[1]}",
      "{\"type\":\"G@\",\"data\":1}",
      "{\"type\":\"G\",\n\"data\":}",
      "[true]" }

RECURSIVE Join(_)
Join(chunks) == IF chunks = <<>> THEN "" ELSE Head(chunks) \o Join(Tail(chunks))
Texts == {Join(chunks) : chunks \in UNION {[1..n -> TextChunks] : n \in 0..MaxChunks}}

\* raw_decode raises: the JSONDecodeError leaves validate_text
DecodeFailure(v, s, failure) ==
    [v EXCEPT !.pc = "crashed",
              !.error = [reason |-> "JSONDecodeError", event_index |-> NoIndex,
                         line |-> DecodeErrorLine(s, failure.pos),
                         col |-> DecodeErrorCol(s, failure.pos)]]

\* one iteration of validate_text's loop on the text
ReadEvent ==
    /\ pc = "loop"
    /\ idx < Len(text)
    /\ SkipSpace(text, idx) < Len(text)
    /\ LET start == SkipSpace(text, idx)
           got == RawDecode(text, start)
           where == PosToLineCol(LineStarts(text), start)
           after == Iteration(self, got.obj, where.line, where.col)
       IN  IF ~got.ok
           THEN /\ Store(DecodeFailure(self, text, got))
                /\ idx' = start
                /\ UNCHANGED <<stream, outcomes>>
           ELSE /\ Store(after.self)
                /\ idx' = IF after.self.pc = "loop" THEN got.end ELSE start
                /\ stream' = Append(stream, got.obj)
                /\ outcomes' = Append(outcomes, after.outcome)
    /\ UNCHANGED <<text, matcher_vars, tag_vars, two_vars, again_vars, main_vars>>

\* the loop ends: idx >= n, at once or after the whitespace that ends the text
TextEnds ==
    /\ pc = "loop"
    /\ SkipSpace(text, idx) >= Len(text)
    /\ pc' = "done"
    /\ idx' = SkipSpace(text, idx)
    /\ UNCHANGED <<collect_summary, registry, declarator_candidates, event_count,
                   declarer_event_count, normal_event_count, declared_types,
                   event_type_counts, event_index, error, stream, outcomes,
                   text, matcher_vars, tag_vars, two_vars, again_vars, main_vars>>

\* ESMLValidator(collect_summary).validate_text(text) is entered
InitText ==
    /\ \E summary \in BOOLEAN : StartAs(NewValidator(summary))
    /\ stream = <<>>
    /\ outcomes = <<>>
    /\ text \in Texts
    /\ idx = 0
    /\ MatcherOff
    /\ TagOff
    /\ TwoOff
    /\ AgainOff
    /\ MainOff

NextText ==
    \/ ReadEvent
    \/ TextEnds

SpecText == InitText /\ [][NextText]_vars

----------------------------------------------------------------------------
(* parse_type_tag applied on its own to the strings over a small alphabet. *)

\* the longest tag, and the characters tags are made of
MaxTagLen == 4
TagAlphabet == {"a", "@", "\n"}
RECURSIVE StringsOfLen(_)
StringsOfLen(n) ==
    IF n = 0 THEN {""}
    ELSE {s \o c : s \in StringsOfLen(n - 1), c \in TagAlphabet}
TagStrings == UNION {StringsOfLen(n) : n \in 0..MaxTagLen}

\* parse_type_tag(tag): the tag returned, or the ValueError raised
ParseTypeTag(tag) ==
    IF TagMatches(tag) THEN [ok |-> TRUE, tag |-> parse_type_tag(tag)]
    ELSE [ok |-> FALSE, error |-> "ValueError"]

InitTag ==
    /\ t_pc = "start"
    /\ t_tag \in TagStrings
    /\ t_result = [ok |-> FALSE, error |-> ""]
    /\ StartAs([NewValidator(FALSE) EXCEPT !.pc = "idle"])
    /\ stream = <<>>
    /\ outcomes = <<>>
    /\ TextOff
    /\ MatcherOff
    /\ TwoOff
    /\ AgainOff
    /\ MainOff

\* the call parse_type_tag(t_tag)
ParseTag ==
    /\ t_pc = "start"
    /\ t_pc' = "done"
    /\ t_result' = ParseTypeTag(t_tag)
    /\ UNCHANGED <<validator_vars, text_vars, matcher_vars, two_vars, again_vars,
                   main_vars, t_tag>>

NextTag == ParseTag

SpecTag == InitTag /\ [][NextTag]_vars

----------------------------------------------------------------------------
(* Two ESMLValidator objects, each validating a stream of its own, their   *)
(* loop iterations interleaved in every order.  The dictionary             *)
(* BUILTIN_TYPEDECLARED_SCHEMA is an attribute of the class: __init__       *)
(* puts a reference to it, not a copy, into each object's registry, and    *)
(* _same_typedeclared_schema reads it through self.  class_schema is the   *)
(* value that dictionary has now.                                          *)

\* the longest stream of each of the two objects
MaxOwnEvents == 2

TwoInputs ==
    { Declare("TypeDeclared", "TypeDeclared", BUILTIN_TYPEDECLARED_SCHEMA),
      Declare("TypeDeclared", "TypeDeclared", BuiltinWithoutLog),
      Declare("TypeDeclared", "TypeDeclared", BuiltinOpen),
      Event("TypeDeclared", JObj(<< <<"name", JStr("Greeting")>>,
                                    <<"schema", Requires("text")>>,
                                    <<"log", JStr("hello")>> >>)),
      Event("Greeting", Hi("text")) }

\* what normalize(builtin) leaves in the class dictionary: `s = dict(s)` and
\* `props = dict(...)` copy before the pop, so the dictionary stays as it is
BuiltinAfterNormalizeInPlace(builtin) == Normalize(builtin)
BuiltinAfterNormalize(builtin) == builtin

\* the object as the code sees it: while the registry's bootstrap entry is
\* the reference __init__ stored, its value is that of the class dictionary
Deref(one) ==
    IF one.builtin_ref
    THEN [one.v EXCEPT !.registry = [@ EXCEPT ![BootstrapTag] = class_schema]]
    ELSE one.v

\* the call _validate_event(obj) reaches normalize(builtin), line 238
ComparesWithBuiltin(obj, outcome) ==
    /\ outcome.as = "declarer"
    /\ \/ outcome.result = "redefine TypeDeclared with a different shape"
       \/ /\ outcome.result = OK
          /\ parse_type_tag(Get(Lookup(obj, "data"), "name").v) = BootstrapTag

\* the call _validate_event(obj) stores a schema of the file as the
\* registry's bootstrap entry, line 293
ReplacesBootstrapEntry(obj, outcome) ==
    /\ outcome.as = "declarer"
    /\ outcome.result = OK
    /\ parse_type_tag(Get(Lookup(obj, "data"), "name").v) = BootstrapTag

\* ESMLValidator(collect_summary) twice, and validate_text entered on each
InitTwo ==
    /\ class_schema = BUILTIN_TYPEDECLARED_SCHEMA
    /\ \E s1, s2 \in BOOLEAN :
           inst = [i \in 1..2 |->
                      [v |-> NewValidator(IF i = 1 THEN s1 ELSE s2),
                       builtin_ref |-> TRUE,
                       stream |-> <<>>]]
    /\ StartAs([NewValidator(FALSE) EXCEPT !.pc = "idle"])
    /\ stream = <<>>
    /\ outcomes = <<>>
    /\ TextOff
    /\ MatcherOff
    /\ TagOff
    /\ AgainOff
    /\ MainOff

\* the iteration of object i that read obj left got
TwoStoreOutcome(i, got, obj) ==
    /\ inst' = [inst EXCEPT ![i] =
                   [v |-> got.self,
                    builtin_ref |-> @.builtin_ref
                                    /\ ~ReplacesBootstrapEntry(obj, got.outcome),
                    stream |-> Append(@.stream, obj)]]
    /\ class_schema' = IF ComparesWithBuiltin(obj, got.outcome)
                       THEN BuiltinAfterNormalize(class_schema)
                       ELSE class_schema

\* one iteration of validate_text's loop on object i
TwoValidateEvent(i, obj) ==
    /\ inst[i].v.pc = "loop"
    /\ Len(inst[i].stream) < MaxOwnEvents
    /\ TwoStoreOutcome(i, Iteration(Deref(inst[i]), obj, Len(inst[i].stream) + 1, 1), obj)
    /\ UNCHANGED <<validator_vars, text_vars, matcher_vars, tag_vars, again_vars,
                   main_vars>>

\* validate_text on object i: idx >= n ends the loop
TwoEndOfText(i) ==
    /\ inst[i].v.pc = "loop"
    /\ inst' = [inst EXCEPT ![i].v.pc = "done"]
    /\ UNCHANGED <<validator_vars, text_vars, matcher_vars, tag_vars, again_vars,
                   main_vars, class_schema>>

NextTwo ==
    \/ \E i \in 1..2, obj \in TwoInputs : TwoValidateEvent(i, obj)
    \/ \E i \in 1..2 : TwoEndOfText(i)

SpecTwo == InitTwo /\ [][NextTwo]_vars

----------------------------------------------------------------------------
(* validate_text called again on the validator that has validated a text.  *)

\* the most calls of validate_text on the one validator
MaxCalls == 2

AgainInputs ==
    { Declare("TypeDeclared", "TypeDeclared", BUILTIN_TYPEDECLARED_SCHEMA),
      Declare("TypeDeclared", "Greeting", Requires("text")),
      Declare("TypeDeclared", "Foo", DeclarerShaped),
      Declare("Foo", "Greeting", Requires("msg")),
      Event("Greeting", Hi("text")) }

\* validate_text is entered on the object an earlier call has left: idx and
\* event_index are locals and start from 0, the attributes of self are not
\* assigned
ValidateTextAgain ==
    /\ pc \in {"done", "error", "crashed"}
    /\ Len(earlier) < MaxCalls - 1
    /\ earlier' = Append(earlier, stream)
    /\ stream' = <<>>
    /\ outcomes' = <<>>
    /\ event_index' = 0
    /\ pc' = "loop"
    /\ error' = NoError
    /\ UNCHANGED <<collect_summary, registry, declarator_candidates, event_count,
                   declarer_event_count, normal_event_count, declared_types,
                   event_type_counts, text_vars, matcher_vars, tag_vars, two_vars,
                   main_vars>>

InitAgain == Init

NextAgain ==
    \/ \E obj \in AgainInputs : ValidateEvent(obj)
    \/ EndOfText
    \/ ValidateTextAgain

SpecAgain == InitAgain /\ [][NextAgain]_vars

----------------------------------------------------------------------------
(* main(): the command line.  The file "f.esml" holds the text; the file   *)
(* "missing.esml" does not exist.                                          *)

Argvs ==
    { <<>>, <<"--summary">>, <<"--jsonl">>,
      <<"f.esml">>, <<"--summary", "f.esml">>, <<"--jsonl", "f.esml">>,
      <<"missing.esml">>, <<"--jsonl", "missing.esml">> }

\* the exit statuses: sys.exit(1) of the two usage errors, sys.exit(2) of the
\* except clause, the return from main, and the status Python ends with when
\* an exception leaves main
ExitUsage == 1
ExitValidationError == 2
ExitSuccess == 0
ExitUncaught == 1

\* the flag main takes off the front of the arguments, and what is left
Flag(args) ==
    IF Len(args) > 0 /\ Head(args) \in {"--summary", "--jsonl"} THEN Head(args) ELSE ""
Rest(args) == IF Flag(args) # "" THEN Tail(args) ELSE args
FileExists(path) == path = "f.esml"

\* export_jsonl on the text s from offset i: "ok", or the exception of raw_decode
RECURSIVE ExportJsonl(_, _)
ExportJsonl(s, i) ==
    IF SkipSpace(s, i) >= Len(s) THEN OK
    ELSE IF ~RawDecode(s, SkipSpace(s, i)).ok THEN "JSONDecodeError"
    ELSE ExportJsonl(s, RawDecode(s, SkipSpace(s, i)).end)

InitMain ==
    /\ main_pc = "start"
    /\ argv \in Argvs
    /\ exit_status = NoStatus
    /\ text \in Texts
    /\ idx = 0
    /\ StartAs([NewValidator(FALSE) EXCEPT !.pc = "idle"])
    /\ stream = <<>>
    /\ outcomes = <<>>
    /\ MatcherOff
    /\ TagOff
    /\ TwoOff
    /\ AgainOff

\* no argument at all, or none after the flag: the usage message, sys.exit(1)
MainUsage ==
    /\ main_pc = "start"
    /\ Rest(argv) = <<>>
    /\ main_pc' = "exited"
    /\ exit_status' = ExitUsage
    /\ UNCHANGED <<validator_vars, text_vars, matcher_vars, tag_vars, two_vars,
                   again_vars, argv>>

\* --jsonl: export_jsonl(path), then main returns
MainExport ==
    /\ main_pc = "start"
    /\ Rest(argv) # <<>>
    /\ Flag(argv) = "--jsonl"
    /\ main_pc' = "exited"
    /\ exit_status' = IF ~FileExists(Head(Rest(argv))) THEN ExitUncaught
                      ELSE IF ExportJsonl(text, 0) # OK THEN ExitUncaught
                      ELSE ExitSuccess
    /\ UNCHANGED <<validator_vars, text_vars, matcher_vars, tag_vars, two_vars,
                   again_vars, argv>>

\* validator = ESMLValidator(collect_summary); validate_file(path) opens the
\* file and enters validate_text
MainValidateFile ==
    /\ main_pc = "start"
    /\ Rest(argv) # <<>>
    /\ Flag(argv) # "--jsonl"
    /\ IF FileExists(Head(Rest(argv)))
       THEN /\ Store(NewValidator(Flag(argv) = "--summary"))
            /\ main_pc' = "validating"
            /\ exit_status' = exit_status
       ELSE /\ Store([self EXCEPT !.collect_summary = (Flag(argv) = "--summary")])
            /\ main_pc' = "exited"
            /\ exit_status' = ExitUncaught
    /\ UNCHANGED <<stream, outcomes, text_vars, matcher_vars, tag_vars, two_vars,
                   again_vars, argv>>

\* validate_file is left: by return (print OK, and the summary), by an
\* ESMLValidationError (the except clause) or by another exception
MainReport ==
    /\ main_pc = "validating"
    /\ pc \in {"done", "error", "crashed"}
    /\ main_pc' = "exited"
    /\ exit_status' = CASE pc = "done" -> ExitSuccess
                        [] pc = "error" -> ExitValidationError
                        [] pc = "crashed" -> ExitUncaught
    /\ UNCHANGED <<validator_vars, text_vars, matcher_vars, tag_vars, two_vars,
                   again_vars, argv>>

NextMain ==
    \/ MainUsage
    \/ MainExport
    \/ MainValidateFile
    \/ ReadEvent
    \/ TextEnds
    \/ MainReport

SpecMain == InitMain /\ [][NextMain]_vars

----------------------------------------------------------------------------
(* Vocabulary of the properties below.  None of it is read by the model.   *)

Last(s) == s[Len(s)]
Range(s) == {s[i] : i \in 1..Len(s)}

\* an object with a string `type` and a `data` key
WellFormedEvent(obj) ==
    IsDict(obj) /\ Has(obj, "type") /\ Has(obj, "data") /\ IsStr(Lookup(obj, "type"))
TypeOf(obj) == Lookup(obj, "type").v
DataOf(obj) == Lookup(obj, "data")
\* the type of a well-formed event is a tag name or name@version
HasTag(obj) == WellFormedEvent(obj) /\ TagMatches(TypeOf(obj))
TagOf(obj) == parse_type_tag(TypeOf(obj))

\* the payload carries a string name that is a tag, and an object schema
CarriesDeclaration(obj) ==
    /\ IsDict(DataOf(obj))
    /\ IsStr(Get(DataOf(obj), "name"))
    /\ TagMatches(Get(DataOf(obj), "name").v)
    /\ IsDict(Get(DataOf(obj), "schema"))
DeclaredTag(obj) == parse_type_tag(Get(DataOf(obj), "name").v)
DeclaredSchema(obj) == Get(DataOf(obj), "schema")
Names(obj, tag) == CarriesDeclaration(obj) /\ DeclaredTag(obj) = tag

\* event number i of the stream (from 1) was treated as a declaration event
TreatedAsDeclaration(i) == outcomes[i].as = "declarer"
Accepted(i) == outcomes[i].result = OK
\* event number i was accepted and registered a schema under tag
AcceptedDeclarationOf(i, tag) ==
    TreatedAsDeclaration(i) /\ Accepted(i) /\ DeclaredTag(stream[i]) = tag
AcceptedDeclarations == {i \in 1..Len(stream) : TreatedAsDeclaration(i) /\ Accepted(i)}
LastDeclarationOf(tag) ==
    CHOOSE i \in 1..Len(stream) :
        /\ AcceptedDeclarationOf(i, tag)
        /\ \A j \in 1..Len(stream) : AcceptedDeclarationOf(j, tag) => j <= i

\* this step is one iteration of the loop, on the value Last(stream')
Step == pc = "loop" /\ Len(stream') = Len(stream) + 1

\* equality of JSON values: a number is not a boolean, key order is ignored
RECURSIVE StructEq(_, _)
StructEq(a, b) ==
    /\ a.k = b.k
    /\ CASE a.k = "null" -> TRUE
         [] a.k = "arr" -> /\ Len(a.v) = Len(b.v)
                           /\ \A i \in 1..Len(a.v) : StructEq(a.v[i], b.v[i])
         [] a.k = "obj" -> /\ Keys(a) = Keys(b)
                           /\ \A key \in Keys(a) : StructEq(Lookup(a, key), Lookup(b, key))
         [] OTHER -> a.v = b.v

\* the schema with `log` removed from its properties map
WithoutLog(schema) ==
    IF IsDict(Get(schema, "properties")) /\ Has(Get(schema, "properties"), "log")
    THEN SetKey(schema, "properties", PopKey(Get(schema, "properties"), "log"))
    ELSE schema
HasBuiltinShape(schema) ==
    StructEq(WithoutLog(schema), WithoutLog(BUILTIN_TYPEDECLARED_SCHEMA))

\* type is object, properties has name and schema, required lists both
HasDeclarerShape(schema) ==
    /\ Get(schema, "type") = JStr("object")
    /\ IsDict(Get(schema, "properties"))
    /\ {"name", "schema"} \subseteq Keys(Get(schema, "properties"))
    /\ IsList(Get(schema, "required"))
    /\ {JStr("name"), JStr("schema")} \subseteq Range(Get(schema, "required").v)

----------------------------------------------------------------------------
(* C1..C10.                                                                *)

\* C1: once a declaration of ("TypeDeclared", no version) has been accepted,
\* every later declaration event of the stream that names "TypeDeclared"
\* again fails with "TypeDeclared may only be declared once", with and
\* without summary collection.
C1_SecondSelfDeclarationFails ==
    \A i, j \in 1..Len(stream) :
        (/\ i < j
         /\ AcceptedDeclarationOf(i, BootstrapTag)
         /\ TreatedAsDeclaration(j)
         /\ Names(stream[j], BootstrapTag))
        => outcomes[j].result = "TypeDeclared may only be declared once"

\* C2: when the events before it were accepted and a well-formed event has a
\* type tag that is not in the registry, the run ends at that event with
\* "used before declaration" and the error's event_index is the 0-based
\* position of the event in the stream.
C2_UndeclaredTypeFails ==
    [][(Step /\ HasTag(Last(stream')) /\ ~IsRegistered(registry, TagOf(Last(stream'))))
       => (/\ pc' = "error"
           /\ error'.reason = "used before declaration"
           /\ error'.event_index = Len(stream))]_vars

C2_Witness ==
    /\ pc = "error"
    /\ error.reason = "used before declaration"
    /\ error.event_index = 2
    /\ Len(stream) = 3

\* the bootstrap tag is declared by this event at most once and with the
\* builtin shape: what C3 asks of a declaration event naming "TypeDeclared"
SelfDeclaredOnceWithBuiltinShape(obj) ==
    (TagOf(obj) \in declarator_candidates /\ Names(obj, BootstrapTag))
    => (/\ ~\E i \in 1..Len(stream) : AcceptedDeclarationOf(i, BootstrapTag)
        /\ HasBuiltinShape(DeclaredSchema(obj)))

\* what C3 asks of an event: well formed, its type registered, its payload
\* matching the schema registered for its type
DeclaredBeforeUseAndMatching(obj) ==
    /\ HasTag(obj)
    /\ IsRegistered(registry, TagOf(obj))
    /\ ValidateJson(DataOf(obj), registry[TagOf(obj)], registry, 0) = OK
    /\ SelfDeclaredOnceWithBuiltinShape(obj)

\* C3 as stated: an event that is well formed, whose type is registered,
\* whose payload matches the registered schema and that does not declare the
\* bootstrap tag a second time or with another shape raises no error.
C3_Original ==
    [][(Step /\ DeclaredBeforeUseAndMatching(Last(stream'))) => pc' = "loop"]_vars

\* C3, amended: the same, for events that, when their type is a declarer
\* type, carry an object payload whose name is a string that is a type tag
\* and whose schema is an object.
C3_WellFormedStreamValidates ==
    [][(/\ Step
        /\ DeclaredBeforeUseAndMatching(Last(stream'))
        /\ (TagOf(Last(stream')) \in declarator_candidates
            => CarriesDeclaration(Last(stream'))))
       => (pc' = "loop" /\ error' = NoError)]_vars

C3_Witness ==
    /\ pc = "done"
    /\ Len(stream) = 3
    /\ \A i \in 1..3 : Accepted(i)
    /\ Names(stream[1], BootstrapTag)
    /\ TreatedAsDeclaration(2)
    /\ ~TreatedAsDeclaration(3)

\* C4: once a declaration event has registered a schema of the declarer
\* shape under a tag, every later event of that tag is treated as a
\* declaration event, and when it is accepted its data.schema is registered
\* under its data.name.
C4_DeclarerShapedTypeDeclares ==
    [][(/\ Step
        /\ HasTag(Last(stream'))
        /\ \E i \in 1..Len(stream) :
               /\ AcceptedDeclarationOf(i, TagOf(Last(stream')))
               /\ HasDeclarerShape(DeclaredSchema(stream[i])))
       => (/\ Last(outcomes').as = "declarer"
           /\ Last(outcomes').result = OK
              => (/\ CarriesDeclaration(Last(stream'))
                  /\ IsRegistered(registry', DeclaredTag(Last(stream')))
                  /\ registry'[DeclaredTag(Last(stream'))] = DeclaredSchema(Last(stream'))))]_vars

C4_Witness ==
    /\ Len(stream) = 3
    /\ AcceptedDeclarationOf(1, Tag("Foo", NoVer))
    /\ HasDeclarerShape(DeclaredSchema(stream[1]))
    /\ AcceptedDeclarationOf(2, Tag("Greeting", NoVer))
    /\ TypeOf(stream[2]) = "Foo"
    /\ Accepted(3)
    /\ TypeOf(stream[3]) = "Greeting"

\* C5: an ordinary event of a tag that has been declared (once or several
\* times) gets the result of matching its payload against the schema of the
\* most recent declaration of that tag, and is accepted exactly when that
\* match succeeds.
C5_LastWriteWins ==
    [][(/\ Step
        /\ HasTag(Last(stream'))
        /\ TagOf(Last(stream')) # BootstrapTag
        /\ Last(outcomes').as = "normal"
        /\ \E i \in 1..Len(stream) : AcceptedDeclarationOf(i, TagOf(Last(stream'))))
       => LET obj == Last(stream')
              newest == DeclaredSchema(stream[LastDeclarationOf(TagOf(obj))])
              r == ValidateJson(DataOf(obj), newest, registry, 0)
          IN  /\ Last(outcomes').result = r
              /\ (pc' = "loop") <=> (r = OK)]_vars

\* a tag declared twice, then an event that matches only the older schema
C5_Witness ==
    /\ Len(stream) = 3
    /\ pc = "error"
    /\ \E tag \in DOMAIN registry :
           /\ AcceptedDeclarationOf(1, tag)
           /\ AcceptedDeclarationOf(2, tag)
           /\ outcomes[3].as = "normal"
           /\ TagOf(stream[3]) = tag
           /\ ValidateJson(DataOf(stream[3]), DeclaredSchema(stream[1]), registry, 0) = OK
           /\ ValidateJson(DataOf(stream[3]), DeclaredSchema(stream[2]), registry, 0) # OK

\* C6: the first declaration event of the stream that names "TypeDeclared"
\* is accepted if and only if its schema equals the builtin schema once
\* `log` is removed from the properties of both, and fails with the
\* shape-mismatch error otherwise.
C6_FirstSelfDeclarationIffBuiltinShape ==
    \A j \in 1..Len(stream) :
        (/\ TreatedAsDeclaration(j)
         /\ Names(stream[j], BootstrapTag)
         /\ \A i \in 1..(j - 1) : ~(TreatedAsDeclaration(i) /\ Names(stream[i], BootstrapTag)))
        => IF HasBuiltinShape(DeclaredSchema(stream[j]))
           THEN outcomes[j].result = OK
           ELSE outcomes[j].result = "redefine TypeDeclared with a different shape"

\* C7: with schema S registered under tag T, a value is accepted by
\* {"$ref": "#/$defs/T"} exactly when it is accepted by S.
C7_RefMatchesLikeInline ==
    m_pc = "done" => ((m_viaref = OK) <=> (m_direct = OK))

C7_Witness ==
    /\ m_pc = "done"
    /\ m_tag = Tag("T", Ver("a@b"))
    /\ m_schema = WithAdditional(TString)
    /\ m_value = JObj(<< <<"a", JStr("x")>>, <<"b", JStr("y")>> >>)
    /\ m_viaref = OK

\* the keys of an object value that the schema's properties do not list
UnlistedKeys(value, schema) ==
    Keys(value) \ (IF IsDict(Get(schema, "properties"))
                   THEN Keys(Get(schema, "properties")) ELSE {})
\* the value with null under every unlisted key
BlankUnlisted(value, schema) ==
    JObj([i \in 1..Len(value.v) |->
            IF value.v[i][1] \in UnlistedKeys(value, schema)
            THEN <<value.v[i][1], JNull>> ELSE value.v[i]])

\* C8: for an object schema and an object value: additionalProperties false
\* rejects a value with an unlisted key; additionalProperties
\* {"type": "string"} accepts only if every unlisted key holds a string, and
\* then accepts exactly when the schema without additionalProperties does;
\* additionalProperties true or absent leaves unlisted keys unconstrained
\* (the result does not depend on what they hold).
C8_AdditionalProperties ==
    (/\ m_pc = "done"
     /\ ~Has(m_schema, "$ref")
     /\ Get(m_schema, "type") = JStr("object")
     /\ IsDict(m_value))
    => LET ap == GetOr(m_schema, "additionalProperties", JBool(TRUE))
           unlisted == UnlistedKeys(m_value, m_schema)
           strings == \A key \in unlisted : IsStr(Lookup(m_value, key))
       IN  /\ (ap = JBool(FALSE) /\ unlisted # {}) => m_direct # OK
           /\ (ap = TString /\ m_direct = OK) => strings
           /\ (ap = TString /\ strings)
              => m_direct = ValidateJson(m_value, PopKey(m_schema, "additionalProperties"),
                                         registry, 0)
           /\ ap = JBool(TRUE)
              => m_direct = ValidateJson(BlankUnlisted(m_value, m_schema), m_schema,
                                         registry, 0)

C8_Witness ==
    /\ m_pc = "done"
    /\ m_schema = WithAdditional(JBool(FALSE))
    /\ m_value = JObj(<< <<"a", JStr("x")>>, <<"b", JStr("y")>> >>)
    /\ m_direct = "additional property not allowed"

\* C9: {"type": "integer"} and {"type": "number"} reject true and false, and
\* {"type": "boolean"} accepts exactly the booleans.
C9_BooleansAreNotNumbers ==
    m_pc = "done"
    => /\ (m_schema = JObj(<< <<"type", JStr("integer")>> >>) /\ IsBool(m_value))
          => m_direct = "expected integer"
       /\ (m_schema = JObj(<< <<"type", JStr("number")>> >>) /\ IsBool(m_value))
          => m_direct = "expected number"
       /\ m_schema = JObj(<< <<"type", JStr("boolean")>> >>)
          => ((m_direct = OK) <=> IsBool(m_value))

C9_Witness ==
    /\ m_pc = "done"
    /\ m_schema = JObj(<< <<"type", JStr("integer")>> >>)
    /\ m_value = JBool(TRUE)
    /\ m_direct = "expected integer"

RECURSIVE SumOver(_, _)
SumOver(f, keys) ==
    IF keys = {} THEN 0
    ELSE LET key == CHOOSE x \in keys : TRUE IN f[key] + SumOver(f, keys \ {key})

\* [self-declare bootstrap, declare Greeting, Greeting event]
ScenarioStream ==
    << Declare("TypeDeclared", "TypeDeclared", BUILTIN_TYPEDECLARED_SCHEMA),
       Declare("TypeDeclared", "Greeting", Requires("text")),
       Event("Greeting", Hi("text")) >>

\* C10: after a successful run with summary collection, event_count is the
\* number of events of the stream, the declaration and ordinary counts add up
\* to it, the per-tag counts add up to it, and the declared tags are the tags
\* registered by the declaration events of the stream; the scenario stream
\* gives 3 events, 2 declarations, 1 ordinary, {bootstrap, Greeting}.
C10_SummaryCounts ==
    (pc = "done" /\ collect_summary)
    => /\ event_count = Len(stream)
       /\ declarer_event_count + normal_event_count = event_count
       /\ declarer_event_count = Cardinality({i \in 1..Len(stream) : TreatedAsDeclaration(i)})
       /\ SumOver(event_type_counts, DOMAIN event_type_counts) = event_count
       /\ \A tag \in DOMAIN event_type_counts :
              event_type_counts[tag]
                  = Cardinality({i \in 1..Len(stream) : TagOf(stream[i]) = tag})
       /\ Range(declared_types) = {DeclaredTag(stream[i]) : i \in AcceptedDeclarations}
       /\ DOMAIN registry = Range(declared_types) \cup {BootstrapTag}
       /\ stream = ScenarioStream
          => /\ event_count = 3
             /\ declarer_event_count = 2
             /\ normal_event_count = 1
             /\ Range(declared_types) = {BootstrapTag, Tag("Greeting", NoVer)}

C10_Witness ==
    /\ pc = "done"
    /\ collect_summary
    /\ stream = ScenarioStream
    /\ event_count = 3

----------------------------------------------------------------------------
(* C11..C20.                                                               *)

\* the run has ended with an exception
Failed == pc \in {"error", "crashed"}

\* the 1-based line and column of the character at offset pos of s
LineOf(s, pos) == Cardinality({i \in 1..pos : CharAt(s, i) = "\n"}) + 1
ColOf(s, pos) ==
    LET newlines == {i \in 1..pos : CharAt(s, i) = "\n"}
    IN  IF newlines = {} THEN pos + 1
        ELSE pos + 1 - (CHOOSE i \in newlines : \A j \in newlines : j <= i)

\* C11: whatever ended the run, the error carries the 0-based index of the
\* event at which the run stopped and the 1-based line and column of that
\* event's first character (when the run stops, idx is the offset of that
\* character and event_index the index of that event).
C11_EveryErrorCarriesIndexAndPosition ==
    Failed => /\ error.event_index = event_index
              /\ error.line = LineOf(text, idx)
              /\ error.col = ColOf(text, idx)

\* C12: when the text at the offset reached after skipping whitespace
\* cannot be decoded, the run ends with a validation error
\* (ESMLValidationError, the error the command line reports) whose line and
\* column are those of the decoder's offset.
C12_DecodeFailureIsValidationError ==
    [][(/\ pc = "loop"
        /\ SkipSpace(text, idx) < Len(text)
        /\ ~RawDecode(text, SkipSpace(text, idx)).ok)
       => LET pos == RawDecode(text, SkipSpace(text, idx)).pos
          IN  /\ pc' = "error"
              /\ error'.line = LineOf(text, pos)
              /\ error'.col = ColOf(text, pos)]_vars

\* the registry and the declarator set that the accepted declaration events
\* of the stream make: per tag the schema of its newest accepted declaration,
\* and every tag that was once declared with a schema of the declarer shape
RegistryOfAccepted ==
    [tag \in {BootstrapTag} \cup {DeclaredTag(stream[i]) : i \in AcceptedDeclarations} |->
        IF \E i \in 1..Len(stream) : AcceptedDeclarationOf(i, tag)
        THEN DeclaredSchema(stream[LastDeclarationOf(tag)])
        ELSE BUILTIN_TYPEDECLARED_SCHEMA]
DeclaratorsOfAccepted ==
    {BootstrapTag} \cup {DeclaredTag(stream[i]) :
                            i \in {j \in AcceptedDeclarations :
                                      HasDeclarerShape(DeclaredSchema(stream[j]))}}

\* C13: an event is examined only when every event before it was accepted,
\* so the first event that raises is the last one examined; an event that
\* raises ends the run and is not counted; and the registry and the
\* declarator set are at every moment, the moment of the failure included,
\* exactly what the accepted declaration events made them.
C13_FailFast ==
    /\ \A i \in 1..(Len(stream) - 1) : Accepted(i)
    /\ (Len(stream) > 0 /\ ~Accepted(Len(stream)))
       => (Failed /\ event_count = Len(stream) - 1 /\ event_index = Len(stream) - 1)
    /\ registry = RegistryOfAccepted
    /\ declarator_candidates = DeclaratorsOfAccepted

\* two accepted declarations, then a declaration event that raises
C13_Witness ==
    /\ pc = "error"
    /\ Len(stream) = 3
    /\ AcceptedDeclarationOf(1, Tag("Greeting", NoVer))
    /\ AcceptedDeclarationOf(2, Tag("Foo", NoVer))
    /\ TreatedAsDeclaration(3)
    /\ outcomes[3].result = "declared 'name' must be string"
    /\ DOMAIN registry = {BootstrapTag, Tag("Greeting", NoVer), Tag("Foo", NoVer)}

\* C14: a step never takes a tag out of the declarator set; a tag that an
\* accepted declaration once gave a schema of the declarer shape is in the
\* set whatever was declared under it since; and an event whose tag is in
\* the set is treated as a declaration event.
C14_DeclaratorSetOnlyGrows ==
    [][/\ declarator_candidates \subseteq declarator_candidates'
       /\ \A i \in 1..Len(stream') :
              (/\ TreatedAsDeclaration(i)'
               /\ Accepted(i)'
               /\ HasDeclarerShape(DeclaredSchema(stream'[i])))
              => DeclaredTag(stream'[i]) \in declarator_candidates'
       /\ (Step /\ HasTag(Last(stream')) /\ TagOf(Last(stream')) \in declarator_candidates)
          => Last(outcomes').as = "declarer"]_vars

\* Foo is declared with the declarer shape, re-declared as a string, and the
\* next event of type Foo is still a declaration event
C14_Witness ==
    /\ Len(stream) = 3
    /\ AcceptedDeclarationOf(1, Tag("Foo", NoVer))
    /\ HasDeclarerShape(DeclaredSchema(stream[1]))
    /\ AcceptedDeclarationOf(2, Tag("Foo", NoVer))
    /\ ~HasDeclarerShape(DeclaredSchema(stream[2]))
    /\ HasTag(stream[3])
    /\ TagOf(stream[3]) = Tag("Foo", NoVer)
    /\ TreatedAsDeclaration(3)
    /\ Tag("Foo", NoVer) \in declarator_candidates

MalformedEventReasons ==
    {"event must be an object", "event missing 'type'", "event missing 'data'",
     "'type' must be a string"}

\* C17: a decoded value that is not an object, or has no `type`, or has no
\* `data`, or whose `type` is not a string ends the run with one of the four
\* malformed-event errors, carrying the value's index, on the path that
\* looks nothing up: registry, declarator set and counters are left as they
\* were.
C17_MalformedEventRejectedFirst ==
    [][(Step /\ ~WellFormedEvent(Last(stream')))
       => (/\ pc' = "error"
           /\ error'.reason \in MalformedEventReasons
           /\ error'.event_index = Len(stream)
           /\ Last(outcomes').as = "malformed"
           /\ registry' = registry
           /\ declarator_candidates' = declarator_candidates
           /\ event_type_counts' = event_type_counts
           /\ declarer_event_count' = declarer_event_count
           /\ normal_event_count' = normal_event_count)]_vars

\* an accepted declaration, then an object whose `type` is a number
C17_Witness ==
    /\ pc = "error"
    /\ Len(stream) = 2
    /\ Accepted(1)
    /\ IsDict(stream[2])
    /\ Has(stream[2], "type")
    /\ ~IsStr(Lookup(stream[2], "type"))
    /\ error = [reason |-> "'type' must be a string", event_index |-> 1,
                line |-> 2, col |-> 1]

\* C18: an event object whose keys are not exactly `type` and `data` is
\* rejected.
C18_OnlyTypeAndData ==
    [][(Step /\ IsDict(Last(stream')) /\ Keys(Last(stream')) # {"type", "data"})
       => pc' \in {"error", "crashed"}]_vars

\* the schema the specification fixes for the bootstrap type: a string name
\* and an object schema are required, log is optional and a string, nothing
\* else is allowed
FixedBootstrapSchemaAccepts(payload) ==
    /\ IsDict(payload)
    /\ {"name", "schema"} \subseteq Keys(payload)
    /\ Keys(payload) \subseteq {"name", "schema", "log"}
    /\ IsStr(Lookup(payload, "name"))
    /\ IsDict(Lookup(payload, "schema"))
    /\ Has(payload, "log") => IsStr(Lookup(payload, "log"))

\* C19: in every state of a run the payload of an event of the bootstrap
\* type passes the schema check (the match against the schema registered
\* for the bootstrap tag) exactly when the fixed bootstrap schema accepts it.
C19_BootstrapSchemaFixed ==
    [][(Step /\ HasTag(Last(stream')) /\ TagOf(Last(stream')) = BootstrapTag)
       => (/\ IsRegistered(registry, BootstrapTag)
           /\ (ValidateJson(DataOf(Last(stream')), registry[BootstrapTag], registry, 0) = OK)
              <=> FixedBootstrapSchemaAccepts(DataOf(Last(stream'))))]_vars

\* the place of the first '@' in tag, as a character number from 1
FirstAtSign(tag) ==
    CHOOSE i \in 1..Len(tag) :
        CharAt(tag, i) = "@" /\ \A j \in 1..(i - 1) : CharAt(tag, j) # "@"
HasAtSign(tag) == \E i \in 1..Len(tag) : CharAt(tag, i) = "@"
HasNewline(tag) == \E i \in 1..Len(tag) : CharAt(tag, i) = "\n"

\* C15: a tag that parse_type_tag parses is split at its first '@': the name
\* is what stands before it and the version is everything after it; a tag
\* without '@' is the name, with no version.
C15_SplitsAtFirstAt ==
    (t_pc = "done" /\ t_result.ok)
    => IF HasAtSign(t_tag)
       THEN t_result.tag = Tag(SubSeq(t_tag, 1, FirstAtSign(t_tag) - 1),
                               Ver(SubSeq(t_tag, FirstAtSign(t_tag) + 1, Len(t_tag))))
       ELSE t_result.tag = Tag(t_tag, NoVer)

RECURSIVE AloneFrom(_, _, _)
AloneFrom(v, events, k) ==
    IF k > Len(events) \/ v.pc # "loop" THEN v
    ELSE AloneFrom(Iteration(v, events[k], k, 1).self, events, k + 1)
Alone(summary, events, ended) ==
    LET v == AloneFrom(NewValidator(summary), events, 1)
    IN  IF ended /\ v.pc = "loop" THEN [v EXCEPT !.pc = "done"] ELSE v

\* C20: whatever the interleaving of two objects' iterations, each object
\* has the result (how far it came, and the error raised), the registry and
\* the declarator set that validating its own stream alone gives.
C20_InstancesIndependent ==
    \A i \in DOMAIN inst :
        LET here == Deref(inst[i])
            alone == Alone(inst[i].v.collect_summary, inst[i].stream,
                           inst[i].v.pc = "done")
        IN  /\ here.pc = alone.pc
            /\ here.error = alone.error
            /\ here.event_count = alone.event_count
            /\ here.registry = alone.registry
            /\ here.declarator_candidates = alone.declarator_candidates

\* object 1 has declared the bootstrap type itself, then object 2 published
\* a declaration whose payload has a `log`, and both ended
C20_Witness ==
    /\ DOMAIN inst = 1..2
    /\ inst[1].v.pc = "done"
    /\ inst[2].v.pc = "done"
    /\ Len(inst[1].stream) = 2
    /\ inst[1].stream[1] = Declare("TypeDeclared", "TypeDeclared", BuiltinWithoutLog)
    /\ ~inst[1].builtin_ref
    /\ Len(inst[2].stream) = 2
    /\ Has(Lookup(inst[2].stream[1], "data"), "log")
    /\ inst[2].builtin_ref
    /\ Tag("Greeting", NoVer) \in DOMAIN inst[2].v.registry
    /\ inst[1].v.registry[BootstrapTag] # inst[2].v.registry[BootstrapTag]

\* C21: the result of validate_text on a text (how far it came and the error
\* raised) is the one a new validator gives for that text, whatever the same
\* validator validated before.
C21_NoStateAcrossRuns ==
    LET alone == Alone(collect_summary, stream, pc = "done")
    IN  /\ pc = alone.pc
        /\ error = alone.error


\* C22: matching a value against a schema comes to an end by itself, with
\* "ok" or with an error of the matcher, also when the registered schemas
\* refer to themselves through $ref; it never recurses without end (which
\* Python cuts short with RecursionError).
C22_MatchTerminates ==
    m_pc = "done" => /\ m_direct # "RecursionError"
                     /\ m_viaref # "RecursionError"


\* C23: the process ends with one status for a usage error (no file
\* argument), another for every input the validator rejects (undecodable
\* JSON and invalid type tags included), and a third for success.
C23_ThreeExitStatuses ==
    main_pc = "exited"
    => /\ Rest(argv) = <<>> => exit_status = ExitUsage
       /\ pc = "done" => exit_status = ExitSuccess
       /\ pc \in {"error", "crashed"} => exit_status \notin {ExitUsage, ExitSuccess}


\* the field of a payload, absent (null) also when the payload is no object
FieldOf(payload, key) == IF IsDict(payload) THEN Get(payload, key) ELSE JNull

\* C24: a declaration event whose payload passes the declarer's schema, and
\* whose name is absent or not a string or whose schema is absent or not an
\* object, fails with the validation error that names such a field, also
\* when the payload is not an object.
C24_WrongFieldIsNamed ==
    [][(/\ Step
        /\ HasTag(Last(stream'))
        /\ Last(outcomes').as = "declarer"
        /\ IsRegistered(registry, TagOf(Last(stream')))
        /\ ValidateJson(DataOf(Last(stream')), registry[TagOf(Last(stream'))],
                        registry, 0) = OK
        /\ \/ ~IsStr(FieldOf(DataOf(Last(stream')), "name"))
           \/ ~IsDict(FieldOf(DataOf(Last(stream')), "schema")))
       => \/ /\ ~IsStr(FieldOf(DataOf(Last(stream')), "name"))
             /\ Last(outcomes').result = "declared 'name' must be string"
             /\ pc' = "error"
          \/ /\ ~IsDict(FieldOf(DataOf(Last(stream')), "schema"))
             /\ Last(outcomes').result = "'schema' must be object"
             /\ pc' = "error"]_vars


\* a tag string split at its first '@'
SplitTag(s) ==
    IF HasAtSign(s)
    THEN Tag(SubSeq(s, 1, FirstAtSign(s) - 1), Ver(SubSeq(s, FirstAtSign(s) + 1, Len(s))))
    ELSE Tag(s, NoVer)
DeclaredNameOf(obj) == Get(DataOf(obj), "name").v
SelfDeclarationErrors ==
    {"TypeDeclared may only be declared once", "redefine TypeDeclared with a different shape"}

\* C25: an accepted declaration registers its schema under the pair (name,
\* version) its name splits into, and changes no other entry; an ordinary
\* event whose own pair is not registered is undeclared; and a declaration
\* of any pair but ("TypeDeclared", no version) never fails by the
\* self-declaration rule.
C25_RegisteredUnderNameAndVersion ==
    [][(Step /\ HasTag(Last(stream')))
       => /\ (Last(outcomes') = [as |-> "declarer", result |-> OK])
             => /\ DOMAIN registry' = DOMAIN registry
                                      \cup {SplitTag(DeclaredNameOf(Last(stream')))}
                /\ registry'[SplitTag(DeclaredNameOf(Last(stream')))]
                       = DeclaredSchema(Last(stream'))
                /\ \A tag \in DOMAIN registry :
                       tag # SplitTag(DeclaredNameOf(Last(stream')))
                       => registry'[tag] = registry[tag]
          /\ (/\ Last(outcomes').as = "normal"
              /\ SplitTag(TypeOf(Last(stream'))) \notin DOMAIN registry)
             => Last(outcomes').result = "used before declaration"
          /\ (/\ Last(outcomes').as = "declarer"
              /\ CarriesDeclaration(Last(stream'))
              /\ SplitTag(DeclaredNameOf(Last(stream'))) # Tag("TypeDeclared", NoVer))
             => Last(outcomes').result \notin SelfDeclarationErrors]_vars

\* "TypeDeclared@v1" declared with a schema unlike the builtin one, then
\* "Greeting@v1" declared, then an event of "Greeting@v2" rejected
C25_Witness ==
    /\ Len(stream) = 3
    /\ stream[1] = Declare("TypeDeclared", "TypeDeclared@v1", TString)
    /\ outcomes[1] = [as |-> "declarer", result |-> OK]
    /\ stream[2] = Declare("TypeDeclared", "Greeting@v1", Requires("msg"))
    /\ outcomes[2] = [as |-> "declarer", result |-> OK]
    /\ stream[3] = Event("Greeting@v2", Hi("msg"))
    /\ outcomes[3] = [as |-> "normal", result |-> "used before declaration"]
    /\ DOMAIN registry = {BootstrapTag, Tag("TypeDeclared", Ver("v1")),
                          Tag("Greeting", Ver("v1"))}
    /\ registry[BootstrapTag] = BUILTIN_TYPEDECLARED_SCHEMA


\* C26: before the first event the registry holds the builtin schema under
\* ("TypeDeclared", no version) and nothing else, and the declarator set
\* holds that tag and nothing else; and a first event that was accepted has
\* the type "TypeDeclared".
C26_StartsWithBootstrapOnly ==
    /\ stream = <<>>
       => /\ DOMAIN registry = {Tag("TypeDeclared", NoVer)}
          /\ registry[Tag("TypeDeclared", NoVer)] = BUILTIN_TYPEDECLARED_SCHEMA
          /\ declarator_candidates = {Tag("TypeDeclared", NoVer)}
    /\ (Len(stream) >= 1 /\ Accepted(1))
       => /\ WellFormedEvent(stream[1])
          /\ TypeOf(stream[1]) = "TypeDeclared"

\* a first event that is accepted, and one more after it
C26_Witness ==
    /\ Len(stream) = 2
    /\ Accepted(1)
    /\ stream[1] = Declare("TypeDeclared", "Greeting", Requires("text"))
    /\ stream[2] = Event("Greeting", Hi("text"))
    /\ Accepted(2)


\* C27: every tag of the declarator set has a schema in the registry, and no
\* event has failed with 'declarer not registered'.
C27_DeclaratorsAreRegistered ==
    /\ declarator_candidates \subseteq DOMAIN registry
    /\ \A i \in 1..Len(outcomes) : outcomes[i].result # "not registered"

\* a tag promoted to declarer and then used to declare
C27_Witness ==
    /\ Len(stream) = 2
    /\ stream[1] = Declare("TypeDeclared", "Foo", DeclarerShaped)
    /\ stream[2] = Declare("Foo", "Greeting", Requires("msg"))
    /\ outcomes[2] = [as |-> "declarer", result |-> OK]
    /\ Tag("Foo", NoVer) \in declarator_candidates


\* the tags the $refs name that a match of value against schema goes
\* through, when the match succeeds
RECURSIVE RefsFollowed(_, _, _)
RefsFollowed(value, schema, reg) ==
    IF ~IsDict(schema) THEN {}
    ELSE IF Has(schema, "$ref")
    THEN IF ~SupportedRef(Lookup(schema, "$ref")) THEN {}
         ELSE LET t == SplitTag(RefTag(Lookup(schema, "$ref")))
              IN  {t} \cup (IF t \in DOMAIN reg
                            THEN RefsFollowed(value, reg[t], reg) ELSE {})
    ELSE IF Get(schema, "type") = JStr("object") /\ IsDict(value)
    THEN LET props == IF IsDict(Get(schema, "properties"))
                      THEN Get(schema, "properties") ELSE JObj(<<>>)
             ap == Get(schema, "additionalProperties")
         IN  UNION {RefsFollowed(Lookup(value, k), Lookup(props, k), reg) :
                        k \in Keys(value) \cap Keys(props)}
             \cup (IF IsDict(ap)
                   THEN UNION {RefsFollowed(Lookup(value, k), ap, reg) :
                                   k \in Keys(value) \ Keys(props)}
                   ELSE {})
    ELSE IF Get(schema, "type") = JStr("array") /\ IsList(value)
    THEN UNION {RefsFollowed(value.v[i], Get(schema, "items"), reg) :
                    i \in 1..Len(value.v)}
    ELSE {}

\* the tags an accepted event refers to: its own type if it is an ordinary
\* event, and the tags of the $refs its payload's match went through
TagsReferredTo(obj, as, reg) ==
    (IF as = "normal" THEN {SplitTag(TypeOf(obj))} ELSE {})
    \cup (IF SplitTag(TypeOf(obj)) \in DOMAIN reg
          THEN RefsFollowed(DataOf(obj), reg[SplitTag(TypeOf(obj))], reg) ELSE {})

\* C28: every tag an accepted event refers to, by its type or by a $ref its
\* match resolves, is in the registry, put there by the bootstrap or by an
\* earlier accepted declaration of the stream; and no step takes a tag out
\* of the registry.
C28_ReferencedTagsAreRegistered ==
    [][/\ DOMAIN registry \subseteq DOMAIN registry'
       /\ (Step /\ HasTag(Last(stream')) /\ Last(outcomes').result = OK)
          => \A t \in TagsReferredTo(Last(stream'), Last(outcomes').as, registry) :
                 /\ t \in DOMAIN registry
                 /\ \/ t = Tag("TypeDeclared", NoVer)
                    \/ \E i \in 1..Len(stream) : AcceptedDeclarationOf(i, t)]_vars

\* an accepted event of a type whose schema is a $ref to a declared type
C28_Witness ==
    /\ Len(stream) = 3
    /\ stream[1] = Declare("TypeDeclared", "Greeting", Requires("text"))
    /\ stream[2] = Declare("TypeDeclared", "Ref",
                           JObj(<< <<"$ref", JStr("#/$defs/Greeting")>> >>))
    /\ stream[3] = Event("Ref", Hi("text"))
    /\ outcomes[3] = [as |-> "normal", result |-> OK]
    /\ TagsReferredTo(stream[3], "normal", registry)
           = {Tag("Ref", NoVer), Tag("Greeting", NoVer)}


\* a string that starts with "#/$defs/", and what follows that prefix
IsDefsRef(ref) ==
    IsStr(ref) /\ Len(ref.v) >= 8 /\ SubSeq(ref.v, 1, 8) = "#/$defs/"
DefsRefTag(ref) == SubSeq(ref.v, 9, Len(ref.v))
\* the registered tags that are written as the string s
RegisteredAs(reg, s) == {t \in DOMAIN reg : TagString(t) = s}

\* C29: a schema with a $ref that is no string starting with "#/$defs/"
\* fails as unsupported; one whose tag is not in the registry fails with
\* '$ref not found'; otherwise the value gets the result of matching it
\* against the registered schema of that tag, whatever other keys stand
\* next to the $ref.
C29_RefResolution ==
    (m_pc = "done" /\ Has(m_schema, "$ref"))
    => IF ~IsDefsRef(Lookup(m_schema, "$ref"))
       THEN m_direct = "unsupported $ref"
       ELSE IF RegisteredAs(registry, DefsRefTag(Lookup(m_schema, "$ref"))) = {}
       THEN m_direct = "$ref not found"
       ELSE \E t \in RegisteredAs(registry, DefsRefTag(Lookup(m_schema, "$ref"))) :
                m_direct = ValidateJson(m_value, registry[t], registry, 0)


\* an object schema without $ref whose `properties` is absent or an object
\* and whose `required` is absent or a list of strings
IsObjectSchema(schema) ==
    /\ IsDict(schema)
    /\ ~Has(schema, "$ref")
    /\ Get(schema, "type") = JStr("object")
    /\ Has(schema, "properties") => IsDict(Lookup(schema, "properties"))
    /\ Has(schema, "required")
       => /\ IsList(Lookup(schema, "required"))
          /\ \A i \in 1..Len(Lookup(schema, "required").v) :
                IsStr(Lookup(schema, "required").v[i])
PropertiesOf(schema) == GetOr(schema, "properties", JObj(<<>>))
RequiredNames(schema) ==
    {GetOr(schema, "required", JArr(<<>>)).v[i].v :
        i \in 1..Len(GetOr(schema, "required", JArr(<<>>)).v)}
\* the keys the value and `properties` have in common
CommonKeys(value, schema) ==
    {k \in Keys(PropertiesOf(schema)) : Has(value, k)}
\* what matching value[k] against properties[k] gives
SubMatch(value, schema, k, reg) ==
    ValidateJson(Lookup(value, k), Lookup(PropertiesOf(schema), k), reg, 0)

\* C30: against an object schema a value that is no object fails with
\* 'expected object'; an object that lacks a name of `required` fails with
\* the missing-property error; otherwise every key of both the value and
\* `properties` is matched against its sub-schema and a failure of one of
\* them is the result; otherwise only additionalProperties decides: a
\* property that is absent from the value and not required causes no error.
C30_ObjectSchema ==
    (m_pc = "done" /\ IsObjectSchema(m_schema))
    => IF ~IsDict(m_value) THEN m_direct = "expected object"
       ELSE IF \E n \in RequiredNames(m_schema) : ~Has(m_value, n)
       THEN m_direct = "missing required property"
       ELSE IF \E k \in CommonKeys(m_value, m_schema) :
                  SubMatch(m_value, m_schema, k, registry) # OK
       THEN \E k \in CommonKeys(m_value, m_schema) :
                /\ m_direct = SubMatch(m_value, m_schema, k, registry)
                /\ m_direct # OK
       ELSE /\ m_direct = AdditionalProperties(m_value, m_schema,
                                               PropertiesOf(m_schema), registry)
            /\ ~Has(m_schema, "additionalProperties") => m_direct = OK

\* an object with the required property a and without the property b, which
\* the schema lists but does not require, is accepted
C30_Witness ==
    /\ m_pc = "done"
    /\ m_schema = TwoProperties
    /\ m_value = JObj(<< <<"a", JStr("x")>> >>)
    /\ CommonKeys(m_value, m_schema) = {"a"}
    /\ m_direct = OK


\* an array schema without $ref whose `items` is absent or an object
IsArraySchema(schema) ==
    /\ IsDict(schema)
    /\ ~Has(schema, "$ref")
    /\ Get(schema, "type") = JStr("array")
    /\ Has(schema, "items") => IsDict(Lookup(schema, "items"))
\* what matching the i-th element against `items` gives
ItemMatch(value, schema, i, reg) ==
    ValidateJson(value.v[i], Lookup(schema, "items"), reg, 0)

\* C31: against an array schema a value that is no array fails with
\* 'expected array'; without `items` every array is accepted; with `items`
\* an array is accepted exactly when each of its elements matches `items`
\* (the empty array always), and otherwise the result is the failure of its
\* first element that does not match.
C31_ArraySchema ==
    (m_pc = "done" /\ IsArraySchema(m_schema))
    => IF ~IsList(m_value) THEN m_direct = "expected array"
       ELSE IF ~Has(m_schema, "items") THEN m_direct = OK
       ELSE /\ m_direct = OK
               <=> \A i \in 1..Len(m_value.v) :
                      ItemMatch(m_value, m_schema, i, registry) = OK
            /\ m_direct # OK
               => \E i \in 1..Len(m_value.v) :
                     /\ m_direct = ItemMatch(m_value, m_schema, i, registry)
                     /\ \A j \in 1..(i - 1) :
                           ItemMatch(m_value, m_schema, j, registry) = OK

\* an array whose first element matches `items` and whose second does not
C31_Witness ==
    /\ m_pc = "done"
    /\ m_schema = JObj(<< <<"type", JStr("array")>>, <<"items", TString>> >>)
    /\ m_value = JArr(<<JStr("hi"), JInt(1)>>)
    /\ m_direct = "expected string"


\* the six values of `type` that have a branch of their own
SupportedTypes ==
    {JStr("object"), JStr("array"), JStr("string"),
     JStr("integer"), JStr("number"), JStr("boolean")}

\* C32: a schema without $ref and without `type` accepts every value; a
\* schema without $ref whose `type` is none of object, array, string,
\* integer, number and boolean rejects every value with the
\* unsupported-type error.
C32_OpenAndUnsupportedTypes ==
    (m_pc = "done" /\ IsDict(m_schema) /\ ~Has(m_schema, "$ref"))
    => /\ ~Has(m_schema, "type") => m_direct = OK
       /\ (Has(m_schema, "type") /\ Lookup(m_schema, "type") \notin SupportedTypes)
          => m_direct = "unsupported type"


\* the offsets before pos that hold a newline character
NewlineOffsetsBefore(s, pos) == {i \in 0..(pos - 1) : At(s, i) = "\n"}
\* the offset at which the line of pos starts
StartOfLine(s, pos) ==
    IF NewlineOffsetsBefore(s, pos) = {} THEN 0
    ELSE 1 + CHOOSE i \in NewlineOffsetsBefore(s, pos) : \A j \in NewlineOffsetsBefore(s, pos) : j <= i

\* C33: the position reported for an event is that of the event's first
\* character, which is no whitespace: the line is 1 plus the number of
\* newline characters before that offset, the column is 1 plus the distance
\* from the start of that line, and both are at least 1.
C33_PositionOfEvent ==
    pc = "error"
    => /\ ~IsSpace(At(text, idx))
       /\ error.line = 1 + Cardinality(NewlineOffsetsBefore(text, idx))
       /\ error.col = 1 + (idx - StartOfLine(text, idx))
       /\ error.line >= 1
       /\ error.col >= 1

\* an event that fails on the second line, after one blank
C33_Witness ==
    /\ pc = "error"
    /\ idx = 2
    /\ At(text, 0) = "\n"
    /\ At(text, 1) = " "
    /\ error.line = 2
    /\ error.col = 2


\* the first offset from i on that holds no whitespace, Len(s) if there is none
FirstNonSpace(s, i) ==
    IF \E j \in i..(Len(s) - 1) : ~IsSpace(At(s, j))
    THEN CHOOSE j \in i..(Len(s) - 1) :
            /\ ~IsSpace(At(s, j))
            /\ \A h \in i..(j - 1) : IsSpace(At(s, h))
    ELSE Len(s)
\* the values of the text from offset i on, in file order, up to its end or
\* to the first place where no value can be decoded
RECURSIVE ValuesFrom(_, _)
ValuesFrom(s, i) ==
    IF FirstNonSpace(s, i) >= Len(s) THEN <<>>
    ELSE IF ~RawDecode(s, FirstNonSpace(s, i)).ok THEN <<>>
    ELSE <<RawDecode(s, FirstNonSpace(s, i)).obj>>
         \o ValuesFrom(s, RawDecode(s, FirstNonSpace(s, i)).end)
\* values and whitespace are all the text holds
RECURSIVE OnlyValuesFrom(_, _)
OnlyValuesFrom(s, i) ==
    \/ FirstNonSpace(s, i) >= Len(s)
    \/ /\ RawDecode(s, FirstNonSpace(s, i)).ok
       /\ OnlyValuesFrom(s, RawDecode(s, FirstNonSpace(s, i)).end)
OnlyWhitespace(s) == \A i \in 0..(Len(s) - 1) : IsSpace(At(s, i))

\* C34: the values handed to the validator are the values of the text in
\* file order, each once, and the value in place k of the text has the
\* event index k - 1; a run that ends without error has read every value of
\* the text, whether whitespace or nothing separates them; a text of values
\* and whitespace never fails in the decoder, and a text of whitespace alone
\* yields no event and no error.
C34_ValuesInFileOrder ==
    /\ Len(stream) <= Len(ValuesFrom(text, 0))
    /\ \A k \in 1..Len(stream) : stream[k] = ValuesFrom(text, 0)[k]
    /\ pc = "loop" => event_index = Len(stream)
    /\ pc = "error" => error.event_index = Len(stream) - 1
    /\ pc = "done" => /\ stream = ValuesFrom(text, 0)
                      /\ event_count = Len(stream)
    /\ OnlyValuesFrom(text, 0) => error.reason # "JSONDecodeError"
    /\ OnlyWhitespace(text) => pc \in {"loop", "done"} /\ stream = <<>>

\* a declaration and an event of the declared type with nothing between them
C34_Witness ==
    /\ pc = "done"
    /\ text = "{\"type\":\"TypeDeclared\",\"data\":{\"name\":\"G\",\"schema\":{\"type\":\"string\"}}}"
              \o "{\"type\":\"G\",\"data\":\"hi\"}"
    /\ Len(stream) = 2
    /\ event_count = 2


\* C35: the run on a stream has the same result (how far it came and the
\* error raised, with its event index), the same registry and the same
\* declarator set as the run of a new validator with the other setting of
\* collect_summary on that stream.
C35_SummaryDoesNotInfluence ==
    LET other == Alone(~collect_summary, stream, pc = "done")
    IN  /\ (pc = "done") = (other.pc = "done")
        /\ (pc # "done") => error = other.error
        /\ registry = other.registry
        /\ declarator_candidates = other.declarator_candidates


\* C36: an iteration that ends the run with an error, raised by whichever
\* check of the event, leaves the registry and the declarator set as they
\* were before the event.
C36_FailedEventChangesNothing ==
    [][(Step /\ pc' \in {"error", "crashed"})
       => /\ registry' = registry
          /\ declarator_candidates' = declarator_candidates]_vars

\* a declaration that passed every check but the self-declaration rule, the
\* last one before the schema is registered
C36_Witness ==
    /\ pc = "error"
    /\ Last(outcomes).as = "declarer"
    /\ Last(outcomes).result = "redefine TypeDeclared with a different shape"
    /\ registry[BootstrapTag] = BUILTIN_TYPEDECLARED_SCHEMA


\* C37: in every state the bootstrap tag is in the declarator set and is
\* registered, and the schema registered under it is structurally equal to
\* the builtin schema once `log` is removed from the properties of both.
C37_BootstrapEntryKeepsShape ==
    /\ BootstrapTag \in declarator_candidates
    /\ IsRegistered(registry, BootstrapTag)
    /\ HasBuiltinShape(registry[BootstrapTag])


----------------------------------------------------------------------------
(* A run long enough for a referring type, the type it refers to, an event, *)
(* a second declaration of the type referred to, and an event again.        *)

MaxLateEvents == 5

TInteger == JObj(<< <<"type", JStr("integer")>> >>)

LateInputs ==
    { Declare("TypeDeclared", "Alias", RefTo(Tag("Target", NoVer))),
      Declare("TypeDeclared", "Target", TString),
      Declare("TypeDeclared", "Target", TInteger),
      Declare("TypeDeclared", "Odd", JObj(<< <<"type", JStr("weird")>> >>)),
      Event("Alias", JStr("hi")),
      Event("Alias", JInt(1)),
      Event("Odd", JStr("hi")) }

\* one iteration of validate_text's loop in the longer run
LateValidateEvent(obj) ==
    /\ pc = "loop"
    /\ Len(stream) < MaxLateEvents
    /\ StoreOutcome(Iteration(self, obj, Len(stream) + 1, 1), obj)
    /\ UNCHANGED other_vars

InitLate == Init

NextLate ==
    \/ \E obj \in LateInputs : LateValidateEvent(obj)
    \/ EndOfText

SpecLate == InitLate /\ [][NextLate]_vars

\* the accepted declarations of tag among the first n events, and the schema
\* the last of them declared
DeclarationsBefore(tag, n) == {i \in 1..n : AcceptedDeclarationOf(i, tag)}
LastBefore(tag, n) ==
    CHOOSE i \in DeclarationsBefore(tag, n) : \A j \in DeclarationsBefore(tag, n) : j <= i
\* event number j is an ordinary event whose type was last declared, by
\* event number i, with a schema that is a $ref to the tag written s
RefersThrough(j, i, s) ==
    /\ outcomes[j].as = "normal"
    /\ HasTag(stream[j])
    /\ DeclarationsBefore(TagOf(stream[j]), j - 1) # {}
    /\ i = LastBefore(TagOf(stream[j]), j - 1)
    /\ DeclaredSchema(stream[i]) = JObj(<< <<"$ref", JStr("#/$defs/" \o s)>> >>)

\* C38: a declaration whose schema is a $ref is accepted whether or not the
\* tag referred to exists, and an event of the referring type is matched
\* against the schema that the last declaration of the tag referred to
\* before that event gave, not the one that stood at the time the referring
\* type was declared; without such a declaration it fails with '$ref not
\* found'.
C38_RefBoundLate ==
    \A j \in 1..Len(stream) :
      /\ (TreatedAsDeclaration(j) /\ Names(stream[j], Tag("Alias", NoVer))) => Accepted(j)
      /\ \A i \in 1..(j - 1) :
            \A t \in {Tag("Target", NoVer)} :
                RefersThrough(j, i, TagString(t))
                => IF DeclarationsBefore(t, j - 1) = {}
                   THEN outcomes[j].result = "$ref not found"
                   ELSE outcomes[j].result =
                            ValidateJson(DataOf(stream[j]),
                                         DeclaredSchema(stream[LastBefore(t, j - 1)]),
                                         registry, 0)

\* Alias is declared before Target exists; the same Alias event is accepted
\* while Target is a string and rejected once Target is declared again as an
\* integer
C38_Witness ==
    /\ Len(stream) = 5
    /\ stream[1] = Declare("TypeDeclared", "Alias", RefTo(Tag("Target", NoVer)))
    /\ stream[2] = Declare("TypeDeclared", "Target", TString)
    /\ stream[3] = Event("Alias", JStr("hi"))
    /\ stream[4] = Declare("TypeDeclared", "Target", TInteger)
    /\ stream[5] = stream[3]
    /\ outcomes[3].result = OK
    /\ outcomes[5].result = "expected integer"
    /\ pc = "error"


\* the declaration carried by obj reaches the registration for every reason
\* but the content of its schema: its declarer is registered, its payload
\* passes the declarer's schema, and it does not name the bootstrap tag
PassesDeclarerSchema(obj, reg) ==
    /\ HasTag(obj)
    /\ IsRegistered(reg, TagOf(obj))
    /\ ValidateJson(DataOf(obj), reg[TagOf(obj)], reg, 0) = OK
    /\ CarriesDeclaration(obj)
    /\ DeclaredTag(obj) # BootstrapTag
\* a schema no value can match: its type has no branch, or its $ref names a
\* tag that is not registered
HasUnsupportedType(schema) ==
    /\ ~Has(schema, "$ref")
    /\ Has(schema, "type")
    /\ Lookup(schema, "type") # JNull
    /\ Lookup(schema, "type") \notin SupportedTypes
HasUnresolvedRef(schema, reg) ==
    /\ Has(schema, "$ref")
    /\ IsDefsRef(Lookup(schema, "$ref"))
    /\ RegisteredAs(reg, DefsRefTag(Lookup(schema, "$ref"))) = {}

\* C39: a declaration that passes its declarer's schema is accepted and its
\* schema is registered as written, whatever the schema holds: also with a
\* type that has no branch or with a $ref to a tag that is not registered;
\* the error of such a schema is raised by the later event that is matched
\* against it.
C39_SchemaContentNotInspected ==
    [][/\ (/\ Step
           /\ HasTag(Last(stream'))
           /\ TagOf(Last(stream')) \in declarator_candidates
           /\ PassesDeclarerSchema(Last(stream'), registry))
          => /\ Last(outcomes').result = OK
             /\ pc' = "loop"
             /\ registry'[DeclaredTag(Last(stream'))] = DeclaredSchema(Last(stream'))
       /\ (/\ Step
           /\ HasTag(Last(stream'))
           /\ TagOf(Last(stream')) \notin declarator_candidates
           /\ IsRegistered(registry, TagOf(Last(stream'))))
          => /\ HasUnsupportedType(registry[TagOf(Last(stream'))])
                => /\ pc' = "error"
                   /\ error'.reason = "unsupported type"
                   /\ error'.event_index = Len(stream)
             /\ HasUnresolvedRef(registry[TagOf(Last(stream'))], registry)
                => /\ pc' = "error"
                   /\ error'.reason = "$ref not found"
                   /\ error'.event_index = Len(stream)]_vars

\* a schema of type "weird" was registered by the first event and the error
\* comes with the second, an event of that type
C39_Witness ==
    /\ Len(stream) = 2
    /\ stream[1] = Declare("TypeDeclared", "Odd", JObj(<< <<"type", JStr("weird")>> >>))
    /\ outcomes[1].result = OK
    /\ registry[Tag("Odd", NoVer)] = JObj(<< <<"type", JStr("weird")>> >>)
    /\ stream[2] = Event("Odd", JStr("hi"))
    /\ pc = "error"
    /\ error.reason = "unsupported type"
    /\ error.event_index = 1

====
